---------------------------- MODULE Spec2Model ----------------------------
(***************************************************************************)
(* Conversation lifecycle of the climate-belief study backend.             *)
(*                                                                         *)
(* Modelled from src/database.js (the HTTP handlers of the conversation    *)
(* endpoints, the summary safety net) and src/lib/dataAccess.js (the       *)
(* dual-write saveSession).                                                *)
(*                                                                         *)
(* Time is counted in ticks, TicksPerSecond ticks to the second (the       *)
(* code's milliseconds, 1000 to the second).  A message's content is one   *)
(* of a few named texts; what the code computes from a text (the markers   *)
(* the bullet regex counts, the summary keywords, the end phrase) is an    *)
(* operator on those names.                                                *)
(*                                                                         *)
(* A handler is one action up to each await that waits for I/O (the        *)
(* reply-generation call, a Prisma query).  An await that resolves without *)
(* I/O only defers to the microtask queue, which Node drains before the    *)
(* next request or I/O callback runs: the task is then marked micro, and   *)
(* no other action is enabled until it has taken its next step.            *)
(***************************************************************************)
EXTENDS Integers, Sequences, FiniteSets, TLC

\* ------------------------------------------------------------------ bounds
MaxSessions == 2
MaxMsgs == 2
MaxNow == 2
MaxInFlight == 2
MaxConcurrentSessions == 1
TicksPerSecond == 2
MaxStored == 6
MaxUserMsgs == 2

Ids == 1..MaxSessions
Slots == 1..MaxInFlight

\* The configured durations tried: a whole second, and one tick less.
DurationChoices == {TicksPerSecond - 1, TicksPerSecond}

\* ------------------------------------------------------------- data model
NULL == -1
NoParticipant == "none"
ParticipantFiles == {"p1"}
ParticipantIds == {"p1", "anon"}

UserContents == {"text", "phrase"}
ReplyContents == {"reply", "reply2b"}

\* The texts a stored message can hold:
\*   "reply"    a reply with no marker and no summary keyword
\*   "reply2b"  a reply listing two points, each led by '-' or '*'
\*   "reply2u"  a reply listing two points, each led by the bullet U+2022
\*   "fallback" a canned question returned when the provider gave no reply
\*   "closing"  the fixed closing message
\*   "summaryText"  the text the safety net synthesizes
\* The detector's string literal and character class hold the three
\* characters U+00E2 U+20AC U+00A2 (the bytes of U+2022 read as Windows-1252
\* and stored again as UTF-8), '*' and '-': U+2022 itself is not among them.
\* How many characters of the text the regex /[...]/g of the detector matches.
BulletMatches(content) ==
    CASE content = "reply2b" -> 2
      [] content = "reply1b" -> 1
      [] content = "summaryText" -> 6
      [] content = "closing" -> 2
      [] content = "reply2u" -> 0
      [] OTHER -> 0

\* content.includes(bullet) || content.includes('*') || content.includes('-')
IncludesBullet(content) == content \in {"reply1b", "reply2b", "summaryText"}

\* 'summarize', 'summary', 'key themes' or 'based on our conversation'
IncludesSummaryKeyword(content) == content \in {"replykw", "summaryText"}

Message(role, content) ==
    [role |-> role, content |-> content, generated_summary |-> FALSE]

summaryMessage ==
    [role |-> "assistant", content |-> "summaryText", generated_summary |-> TRUE]

finalMessage == Message("assistant", "closing")

NoData ==
    [id |-> 0, participantId |-> NoParticipant, startedAt |-> NULL,
     endedAt |-> NULL, durationSeconds |-> NULL, messages |-> <<>>]

Idle ==
    [op |-> "idle", id |-> 0, pc |-> "idle", data |-> NoData, now |-> 0,
     startTime |-> 0, micro |-> FALSE, pre |-> <<>>, content |-> "text"]

\* Map.set / writeFileSync on one key, and Map.delete.
Put(f, k, v) == [i \in DOMAIN f \cup {k} |-> IF i = k THEN v ELSE f[i]]
Drop(f, k) == [i \in DOMAIN f \ {k} |-> f[i]]

\* ------------------------------------------------------------------ state
VARIABLES
    env,            \* NODE_ENV
    prisma,         \* dataAccess.prisma is a client (not null)
    CHAT_DURATION_MS,
    server,         \* the HTTP server and the process: starting, listening,
                    \* closing, exited
    startup,        \* the process environment at startup and how far startup got
    now,            \* the clock
    nextId,         \* the ids uuidv4 has handed out so far
    files,          \* data/conversations/<id>.json
    db,             \* Session.raw of the primary store
    messageRows,    \* the Message rows of the primary store, by session id
    activeConversations,
    inflight,       \* the requests suspended at an await
    closedBy,       \* history: how an id left activeConversations
    last,           \* the response the last step sent, if it sent one
    call,           \* a function called on its own: its argument and its result
    launcher,       \* the process of scripts/migrate-and-start.js
    isInitialized   \* database.js: initializeDatabase has connected the client

vars == <<env, prisma, CHAT_DURATION_MS, server, startup, now, nextId, files, db,
          messageRows, activeConversations, inflight, closedBy, last, call, launcher,
          isInitialized>>

\* What no request handler assigns.
config == <<env, prisma, CHAT_DURATION_MS, server, startup, call, launcher,
           isInitialized>>

\* The server was started as itself: there is no launcher process.
NoLauncher ==
    [pc |-> "none", NODE_ENV |-> TRUE, generateOk |-> TRUE, directoriesOk |-> TRUE,
     spawnOk |-> TRUE, steps |-> <<>>, forwarded |-> FALSE, exitCode |-> NULL]

NoCall == [fn |-> "none", input |-> <<>>, done |-> FALSE, output |-> <<>>]

\* A process that has started: with a client exactly when DATABASE_URL was set
\* and the client was constructed.
Started(client) ==
    [entry |-> "server", DATABASE_URL |-> client, clientOk |-> client,
     reachable |-> client, pc |-> "done", exitCode |-> NULL]

\* File-only, database in development, database in production.  (A production
\* process whose client construction failed stores as the file-only one does.)
Init ==
    /\ env \in {"development", "production"}
    /\ prisma \in BOOLEAN
    /\ env = "production" => prisma
    /\ CHAT_DURATION_MS \in DurationChoices
    /\ server = "listening"
    /\ startup = Started(prisma)
    /\ now = 0
    /\ nextId = 1
    /\ files = <<>>
    /\ db = <<>>
    /\ messageRows = <<>>
    /\ activeConversations = <<>>
    /\ inflight = [s \in Slots |-> Idle]
    /\ closedBy = <<>>
    /\ call = NoCall
    /\ launcher = NoLauncher
    /\ isInitialized = prisma
    /\ last = [op |-> "none", id |-> 0, type |-> "none"]


\* ------------------------------------------------------------ the stores
\* dataAccess.saveSession: the file is written unless the mode is production
\* and a Prisma client exists; the primary store takes the record when a
\* client exists (here its queries succeed).
fileWritten == env # "production" \/ ~prisma

\* The Prisma calls of saveSession in their order: the Session upsert, the
\* Message deleteMany ("messages") and createMany when there are messages,
\* the IndividualDifferences upsert when the participant file is read and
\* the session has ended.  No transaction spans them.
primarySteps(sessionData) ==
    {"upsert"}
    \cup (IF Len(sessionData.messages) > 0 THEN {"messages", "createMany"} ELSE {})
    \cup (IF sessionData.participantId \in ParticipantFiles
             /\ sessionData.endedAt # NULL
          THEN {"differences"} ELSE {})

\* dbFail names the first Prisma call that rejects, "none" if none does.
DbFailures == {"none", "upsert", "messages", "createMany", "differences"}

primaryFailed(sessionData, dbFail) == dbFail \in primarySteps(sessionData)

\* (mutant) the write replaces the whole directory by the one record.
saveSessionFilesIf_ReplacesAll(f, sessionData, fileOk) ==
    IF fileWritten /\ fileOk THEN Put(<<>>, sessionData.id, sessionData) ELSE f

\* writeJson returns fileOk; the record is on disk exactly then.
saveSessionFilesIf(f, sessionData, fileOk) ==
    IF fileWritten /\ fileOk THEN Put(f, sessionData.id, sessionData) ELSE f

\* Session.raw holds the record once the Session upsert has resolved.
saveSessionDbIf(d, sessionData, dbFail) ==
    IF prisma /\ dbFail # "upsert" THEN Put(d, sessionData.id, sessionData) ELSE d

\* The flags dataAccess.saveSession returns.
saveSessionResults(sessionData, fileOk, dbFail) ==
    [file |-> fileWritten /\ fileOk,
     database |-> prisma /\ ~primaryFailed(sessionData, dbFail)]

saveSessionFiles(f, sessionData) == saveSessionFilesIf(f, sessionData, TRUE)

saveSessionDb(d, sessionData) == saveSessionDbIf(d, sessionData, "none")

\* The rows createMany inserts: one per message, turn being the index.
rowsOf(messages) ==
    [i \in 1..Len(messages) |->
        [turn |-> i - 1, role |-> messages[i].role, content |-> messages[i].content]]

\* The Message rows of a session, in the order of turn.
rowsFor(rows, id) == IF id \in DOMAIN rows THEN rows[id] ELSE <<>>

\* The Message rows after dataAccess.saveSession: untouched when the list is
\* empty, when the Session upsert or deleteMany rejects; deleted when
\* createMany rejects; replaced otherwise.
saveSessionRowsIf(rows, sessionData, dbFail) ==
    IF ~prisma \/ dbFail \in {"upsert", "messages"} \/ Len(sessionData.messages) = 0
    THEN rows
    ELSE IF dbFail = "createMany" THEN Put(rows, sessionData.id, <<>>)
    ELSE Put(rows, sessionData.id, rowsOf(sessionData.messages))

saveSessionRows(rows, sessionData) == saveSessionRowsIf(rows, sessionData, "none")

\* readJson(<conversationsDir>/<id>.json) finds a record.
readable(f, id) == id \in DOMAIN f

\* ------------------------------------------------------ summary safety net
SelectRole(messages, role) == SelectSeq(messages, LAMBDA m : m.role = role)

\* Array.prototype.slice(-n)
SliceLast(seq, n) ==
    IF Len(seq) <= n THEN seq ELSE SubSeq(seq, Len(seq) - n + 1, Len(seq))

SummaryWindow == 5

looksLikeSummary(content) ==
    \/ IncludesBullet(content) /\ BulletMatches(content) >= 2
    \/ IncludesSummaryKeyword(content)

\* (mutant) the detector never finds a summary.
fallbackHasExistingSummary_Never(messages) == FALSE

fallbackHasExistingSummary(messages) ==
    LET assistantMessages == SelectRole(messages, "assistant")
        recent == SliceLast(assistantMessages, SummaryWindow)
    IN  /\ Len(messages) # 0
        /\ \E k \in 1..Len(recent) : looksLikeSummary(recent[k].content)

\* fallbackEnsureConversationSummary appends and saves exactly in this case.
summaryAppended(f, id) ==
    /\ readable(f, id)
    /\ ~fallbackHasExistingSummary(f[id].messages)

withSummary(sessionData) ==
    [sessionData EXCEPT !.messages = Append(@, summaryMessage)]

\* (mutant) the safety net detects the missing summary and saves nothing.
ensureSummaryFiles_NoSave(f, id) == f

ensureSummaryFiles(f, id) ==
    IF summaryAppended(f, id) THEN saveSessionFiles(f, withSummary(f[id])) ELSE f

ensureSummaryDb(f, d, id) ==
    IF summaryAppended(f, id) THEN saveSessionDb(d, withSummary(f[id])) ELSE d

ensureSummaryRows(f, rows, id) ==
    IF summaryAppended(f, id) THEN saveSessionRows(rows, withSummary(f[id])) ELSE rows

\* ---------------------------------------------------------------- helpers
shouldEndNow(content) == content = "phrase"

\* Math.floor((now - startTime) / 1000)
elapsedSeconds(t, startedAt) == (t - startedAt) \div TicksPerSecond

\* elapsedSeconds >= CHAT_DURATION_MS / 1000, the division being exact
timeLimitExceeded(t, startedAt) ==
    elapsedSeconds(t, startedAt) * TicksPerSecond >= CHAT_DURATION_MS

\* A request handler may start, or resume after I/O, only when no handler
\* is waiting in the microtask queue.
NoMicrotask == \A s \in Slots : ~inflight[s].micro

FreeSlot(s) ==
    /\ inflight[s].op = "idle"
    /\ \A r \in Slots : r < s => inflight[r].op # "idle"

NoResponse == [op |-> "none", id |-> 0, type |-> "none"]

Respond(op, id, type) == last' = [op |-> op, id |-> id, type |-> type]

Silent == last' = NoResponse

Evict(id, how) ==
    /\ activeConversations' = Drop(activeConversations, id)
    /\ closedBy' = IF id \in DOMAIN activeConversations /\ id \notin DOMAIN closedBy
                   THEN Put(closedBy, id, how) ELSE closedBy

\* ---------------------------------------------------------------- actions
\* The clock is only read while a session is tracked or a request is in
\* flight, so it is only advanced then.
Tick ==
    /\ NoMicrotask
    /\ DOMAIN activeConversations # {} \/ \E s \in Slots : inflight[s].op # "idle"
    /\ now < MaxNow
    /\ now' = now + 1
    /\ UNCHANGED <<config, nextId, files, db, messageRows, activeConversations, inflight,
                   closedBy>>
    /\ Silent

\* POST /api/conversations/start
\* (mutant) the start hands out the id of a closed session again.
StartConversation_ReusesId(participantId) ==
    /\ NoMicrotask
    /\ participantId \in ParticipantFiles
    /\ nextId <= MaxSessions
    /\ LET id == IF DOMAIN closedBy # {}
                 THEN CHOOSE i \in DOMAIN closedBy : TRUE ELSE nextId
           conversationData ==
               [id |-> id, participantId |-> participantId,
                startedAt |-> now, endedAt |-> NULL,
                durationSeconds |-> NULL, messages |-> <<>>]
       IN  /\ files' = saveSessionFiles(files, conversationData)
           /\ db' = saveSessionDb(db, conversationData)
           /\ messageRows' = saveSessionRows(messageRows, conversationData)
           /\ activeConversations' =
                  Put(activeConversations, id,
                      [participantId |-> participantId, startedAt |-> now,
                       lastActivity |-> now])
           /\ Respond("start", id, "ok")
    /\ nextId' = nextId + 1
    /\ UNCHANGED <<config, now, inflight, closedBy>>

\* (mutant) the start with an unknown participant still tracks a session.
StartMissingParticipant_Tracks(participantId) ==
    /\ NoMicrotask
    /\ participantId \notin ParticipantFiles
    /\ nextId <= MaxSessions
    /\ activeConversations' =
           Put(activeConversations, nextId,
               [participantId |-> participantId, startedAt |-> now,
                lastActivity |-> now])
    /\ Respond("start", 0, "participant_not_found")
    /\ nextId' = nextId + 1
    /\ UNCHANGED <<config, now, files, db, messageRows, inflight, closedBy>>

StartMissingParticipant(participantId) ==
    /\ NoMicrotask
    /\ participantId \notin ParticipantFiles
    /\ Respond("start", 0, "participant_not_found")
    /\ UNCHANGED <<config, now, nextId, files, db, messageRows, activeConversations,
                   inflight, closedBy>>

StartConversation(participantId) ==
    /\ NoMicrotask
    /\ participantId \in ParticipantFiles
    /\ nextId <= MaxSessions
    /\ LET conversationData ==
               [id |-> nextId, participantId |-> participantId,
                startedAt |-> now, endedAt |-> NULL,
                durationSeconds |-> NULL, messages |-> <<>>]
       IN  /\ files' = saveSessionFiles(files, conversationData)
           /\ db' = saveSessionDb(db, conversationData)
           /\ messageRows' = saveSessionRows(messageRows, conversationData)
           /\ activeConversations' =
                  Put(activeConversations, nextId,
                      [participantId |-> participantId, startedAt |-> now,
                       lastActivity |-> now])
           /\ Respond("start", nextId, "ok")
    /\ nextId' = nextId + 1
    /\ UNCHANGED <<config, now, inflight, closedBy>>

\* fallback POST /chat/start, mounted when the enhanced router fails to load.
\* importOk: the dynamic import of the opening-line module succeeds.
FallbackChatStart(participantId, importOk, opening) ==
    /\ NoMicrotask
    /\ nextId <= MaxSessions
    /\ LET initial ==
               [id |-> nextId, participantId |-> participantId,
                startedAt |-> now, endedAt |-> NULL,
                durationSeconds |-> 0, messages |-> <<>>]
           opened ==
               [initial EXCEPT !.messages = <<Message("assistant", opening)>>]
       IN  /\ files' = IF importOk
                        THEN saveSessionFiles(saveSessionFiles(files, initial), opened)
                        ELSE saveSessionFiles(files, initial)
           /\ db' = IF importOk
                     THEN saveSessionDb(saveSessionDb(db, initial), opened)
                     ELSE saveSessionDb(db, initial)
           /\ messageRows' =
                  IF importOk
                  THEN saveSessionRows(saveSessionRows(messageRows, initial), opened)
                  ELSE saveSessionRows(messageRows, initial)
           /\ activeConversations' =
                  Put(activeConversations, nextId,
                      [participantId |-> NoParticipant, startedAt |-> now,
                       lastActivity |-> NULL])
           /\ Respond("chatstart", nextId, IF importOk THEN "ok" ELSE "failed")
    /\ nextId' = nextId + 1
    /\ UNCHANGED <<config, now, inflight, closedBy>>

\* POST /api/conversations/:id/message, up to its first I/O await.
\* Texts without a character other than white space, and String.trim.
BlankContents == {"", "   "}

trim(content) == IF content \in BlankContents THEN "" ELSE content

\* (mutant) the handler consults the tracker and the clock before the text.
TurnValidationError_AfterTracker(id, content) ==
    /\ NoMicrotask
    /\ trim(content) = ""
    /\ IF id \notin DOMAIN activeConversations
       THEN /\ Respond("turn", id, "conversation_not_found")
            /\ UNCHANGED <<activeConversations, closedBy>>
       ELSE IF timeLimitExceeded(now, activeConversations[id].startedAt)
       THEN /\ Evict(id, "timeout")
            /\ Respond("turn", id, "timeout")
       ELSE /\ Respond("turn", id, "validation_error")
            /\ UNCHANGED <<activeConversations, closedBy>>
    /\ UNCHANGED <<config, now, nextId, files, db, messageRows, inflight>>

TurnValidationError(id, content) ==
    /\ NoMicrotask
    /\ trim(content) = ""
    /\ Respond("turn", id, "validation_error")
    /\ UNCHANGED <<config, now, nextId, files, db, messageRows, activeConversations,
                   inflight, closedBy>>

\* (mutant) the untracked turn is answered as a timeout.
TurnNotFound_AsTimeout(id, content) ==
    /\ NoMicrotask
    /\ id \notin DOMAIN activeConversations
    /\ Respond("turn", id, "timeout")
    /\ UNCHANGED <<config, now, nextId, files, db, messageRows, activeConversations,
                   inflight, closedBy>>

TurnNotFound(id, content) ==
    /\ NoMicrotask
    /\ id \notin DOMAIN activeConversations
    /\ Respond("turn", id, "conversation_not_found")
    /\ UNCHANGED <<config, now, nextId, files, db, messageRows, activeConversations,
                   inflight, closedBy>>

TurnTimeout(id, content) ==
    /\ NoMicrotask
    /\ id \in DOMAIN activeConversations
    /\ timeLimitExceeded(now, activeConversations[id].startedAt)
    /\ Evict(id, "timeout")
    /\ Respond("turn", id, "timeout")
    /\ UNCHANGED <<config, now, nextId, files, db, messageRows, inflight>>

\* The turn passed the tracker and the time limit.
Admitted(id) ==
    /\ id \in DOMAIN activeConversations
    /\ ~timeLimitExceeded(now, activeConversations[id].startedAt)

TurnDataError(id, content) ==
    /\ NoMicrotask
    /\ Admitted(id)
    /\ ~readable(files, id)
    /\ Respond("turn", id, "data_error")
    /\ UNCHANGED <<config, now, nextId, files, db, messageRows, activeConversations,
                   inflight, closedBy>>

\* The early-end phrase: the user turn is pushed on the loaded copy, then the
\* safety net runs on the stored record.
TurnPhraseBegin(s, id, content) ==
    /\ NoMicrotask
    /\ FreeSlot(s)
    /\ Admitted(id)
    /\ shouldEndNow(content)
    /\ readable(files, id)
    /\ files' = ensureSummaryFiles(files, id)
    /\ db' = ensureSummaryDb(files, db, id)
    /\ messageRows' = ensureSummaryRows(files, messageRows, id)
    /\ inflight' = [inflight EXCEPT ![s] =
           [op |-> "phrase", id |-> id, pc |-> "reload",
            data |-> [files[id] EXCEPT
                        !.messages = Append(@, Message("user", content))],
            now |-> now, startTime |-> activeConversations[id].startedAt,
            micro |-> ~(prisma /\ summaryAppended(files, id)),
            pre |-> files[id].messages, content |-> content]]
    /\ UNCHANGED <<config, now, nextId, activeConversations, closedBy>>
    /\ Silent

\* (mutant) a turn waits while another turn of the same session is in flight.
TurnBegin_Serialized(s, id, content) ==
    /\ NoMicrotask
    /\ FreeSlot(s)
    /\ \A r \in Slots : ~(inflight[r].op = "turn" /\ inflight[r].id = id)
    /\ Admitted(id)
    /\ ~shouldEndNow(content)
    /\ readable(files, id)
    /\ Len(files[id].messages) + 2 <= MaxMsgs
    /\ inflight' = [inflight EXCEPT ![s] =
           [op |-> "turn", id |-> id, pc |-> "generate",
            data |-> [files[id] EXCEPT
                        !.messages = Append(@, Message("user", content))],
            now |-> now, startTime |-> activeConversations[id].startedAt,
            micro |-> FALSE,
            pre |-> files[id].messages, content |-> content]]
    /\ UNCHANGED <<config, now, nextId, files, db, messageRows, activeConversations,
                   closedBy>>
    /\ Silent

\* A normal turn: load, push the user turn, call the reply generation.
TurnBegin(s, id, content) ==
    /\ NoMicrotask
    /\ FreeSlot(s)
    /\ Admitted(id)
    /\ ~shouldEndNow(content)
    /\ readable(files, id)
    /\ Len(files[id].messages) + 2 <= MaxMsgs
    /\ inflight' = [inflight EXCEPT ![s] =
           [op |-> "turn", id |-> id, pc |-> "generate",
            data |-> [files[id] EXCEPT
                        !.messages = Append(@, Message("user", content))],
            now |-> now, startTime |-> activeConversations[id].startedAt,
            micro |-> FALSE,
            pre |-> files[id].messages, content |-> content]]
    /\ UNCHANGED <<config, now, nextId, files, db, messageRows, activeConversations,
                   closedBy>>
    /\ Silent

\* How the call to the reply provider ends: a reply, no API key configured,
\* the 25 s timer of the race fires first, a connection error, a rate-limit
\* error, or a completion without text.
GenerationOutcomes == {"ok", "no_key", "timeout", "network", "rate_limit", "empty"}

\* The message of the error the try block of generateAIResponse raises.
generationError(outcome) ==
    CASE outcome = "timeout" -> "OpenAI API timeout"
      [] outcome = "network" -> "ENOTFOUND"
      [] outcome = "rate_limit" -> "rate limit"
      [] OTHER -> "No response received from OpenAI"

\* (mutant) generateAIResponse lets the provider's error through.
generateAIResponse_Rethrows(outcome, reply) ==
    CASE outcome = "ok" -> [threw |-> FALSE, value |-> reply]
      [] outcome = "no_key" -> [threw |-> FALSE, value |-> "fallback"]
      [] OTHER -> [threw |-> TRUE, value |-> generationError(outcome)]

\* generateAIResponse: every error of the try block is caught and answered
\* with generateIntelligentFallback(messages); without a key a fixed text is
\* returned.  Both are plain questions, named "fallback" here.
generateAIResponse(outcome, reply) ==
    CASE outcome = "ok" -> [threw |-> FALSE, value |-> reply]
      [] OTHER -> [threw |-> FALSE, value |-> "fallback"]

\* The catch block of the message handler: the error type of the response.
errorType(message) ==
    CASE message \in {"OpenAI API timeout", "ECONNRESET"} -> "connection_timeout"
      [] message \in {"ENOTFOUND", "network"} -> "network_error"
      [] message = "rate limit" -> "rate_limit"
      [] OTHER -> "server_error"

\* (mutant) the handler saves the reply without the user turn.
TurnGenerated_DropsUserTurn(s, outcome, reply) ==
    /\ NoMicrotask
    /\ inflight[s].op = "turn"
    /\ inflight[s].pc = "generate"
    /\ LET t == inflight[s]
           g == generateAIResponse(outcome, reply)
           conversationData ==
               [t.data EXCEPT !.messages =
                    Append(t.pre, Message("assistant", g.value))]
       IN  /\ activeConversations' =
                  IF t.id \in DOMAIN activeConversations
                  THEN [activeConversations EXCEPT ![t.id].lastActivity = t.now]
                  ELSE activeConversations
           /\ files' = saveSessionFiles(files, conversationData)
           /\ db' = saveSessionDb(db, conversationData)
           /\ messageRows' = saveSessionRows(messageRows, conversationData)
           /\ Respond("turn", t.id, "reply")
    /\ inflight' = [inflight EXCEPT ![s] = Idle]
    /\ UNCHANGED <<config, now, nextId, closedBy>>

\* The normal turn after the await of generateAIResponse: push the reply,
\* touch the tracker entry, save, answer {reply}; an error raised by the
\* call goes to the catch block, which answers 500 and saves nothing.
TurnGenerated(s, outcome, reply) ==
    /\ NoMicrotask
    /\ inflight[s].op = "turn"
    /\ inflight[s].pc = "generate"
    /\ LET t == inflight[s]
           g == generateAIResponse(outcome, reply)
           conversationData ==
               [t.data EXCEPT !.messages = Append(@, Message("assistant", g.value))]
       IN  IF g.threw
           THEN /\ Respond("turn", t.id, errorType(g.value))
                /\ UNCHANGED <<files, db, messageRows, activeConversations>>
           ELSE /\ activeConversations' =
                       IF t.id \in DOMAIN activeConversations
                       THEN [activeConversations EXCEPT ![t.id].lastActivity = t.now]
                       ELSE activeConversations
                /\ files' = saveSessionFiles(files, conversationData)
                /\ db' = saveSessionDb(db, conversationData)
                /\ messageRows' = saveSessionRows(messageRows, conversationData)
                /\ Respond("turn", t.id, "reply")
    /\ inflight' = [inflight EXCEPT ![s] = Idle]
    /\ UNCHANGED <<config, now, nextId, closedBy>>

\* POST /api/conversations/:id/end, up to its first I/O await.
\* (mutant) the end call for an untracked id closes the stored record.
EndNotFound_ClosesStored(id) ==
    /\ NoMicrotask
    /\ id \notin DOMAIN activeConversations
    /\ files' = IF readable(files, id)
                THEN [files EXCEPT ![id].endedAt = now, ![id].durationSeconds = 0]
                ELSE files
    /\ Respond("end", id, "conversation_not_found")
    /\ UNCHANGED <<config, now, nextId, db, messageRows, activeConversations,
                   inflight, closedBy>>

EndNotFound(id) ==
    /\ NoMicrotask
    /\ id \notin DOMAIN activeConversations
    /\ Respond("end", id, "conversation_not_found")
    /\ UNCHANGED <<config, now, nextId, files, db, messageRows, activeConversations,
                   inflight, closedBy>>

EndDataError(id) ==
    /\ NoMicrotask
    /\ id \in DOMAIN activeConversations
    /\ ~readable(files, id)
    /\ Respond("end", id, "data_error")
    /\ UNCHANGED <<config, now, nextId, files, db, messageRows, activeConversations,
                   inflight, closedBy>>

EndBegin(s, id) ==
    /\ NoMicrotask
    /\ FreeSlot(s)
    /\ id \in DOMAIN activeConversations
    /\ readable(files, id)
    /\ files' = ensureSummaryFiles(files, id)
    /\ db' = ensureSummaryDb(files, db, id)
    /\ messageRows' = ensureSummaryRows(files, messageRows, id)
    /\ inflight' = [inflight EXCEPT ![s] =
           [op |-> "end", id |-> id, pc |-> "reload",
            data |-> files[id],
            now |-> now, startTime |-> files[id].startedAt,
            micro |-> ~(prisma /\ summaryAppended(files, id)),
            pre |-> files[id].messages, content |-> "text"]]
    /\ UNCHANGED <<config, now, nextId, activeConversations, closedBy>>
    /\ Silent

\* Both closing paths after the safety net: reload the stored messages, (the
\* phrase path only) push the closing message, set the end, save.
\* (mutant) the explicit end pushes the closing message as the phrase does.
closedRecord_AlwaysFinal(t, f) ==
    LET reloaded == IF readable(f, t.id)
                    THEN [t.data EXCEPT !.messages = f[t.id].messages]
                    ELSE t.data
        final == [reloaded EXCEPT !.messages = Append(@, finalMessage)]
    IN  [final EXCEPT !.endedAt = t.now,
                      !.durationSeconds = elapsedSeconds(t.now, t.startTime)]

closedRecord(t, f) ==
    LET reloaded == IF readable(f, t.id)
                    THEN [t.data EXCEPT !.messages = f[t.id].messages]
                    ELSE t.data
        final == IF t.op = "phrase"
                 THEN [reloaded EXCEPT !.messages = Append(@, finalMessage)]
                 ELSE reloaded
    IN  [final EXCEPT !.endedAt = t.now,
                      !.durationSeconds = elapsedSeconds(t.now, t.startTime)]

CloseSave(s) ==
    /\ inflight[s].micro \/ NoMicrotask
    /\ inflight[s].op \in {"phrase", "end"}
    /\ inflight[s].pc = "reload"
    /\ files' = saveSessionFiles(files, closedRecord(inflight[s], files))
    /\ db' = saveSessionDb(db, closedRecord(inflight[s], files))
    /\ messageRows' = saveSessionRows(messageRows, closedRecord(inflight[s], files))
    /\ inflight' = [inflight EXCEPT ![s].pc = "evict", ![s].micro = ~prisma,
                                    ![s].data = closedRecord(inflight[s], files)]
    /\ UNCHANGED <<config, now, nextId, activeConversations, closedBy>>
    /\ Silent

\* After the save and the participant update: leave the tracker and respond.
CloseEvict(s) ==
    /\ inflight[s].micro \/ NoMicrotask
    /\ inflight[s].op \in {"phrase", "end"}
    /\ inflight[s].pc = "evict"
    /\ Evict(inflight[s].id, inflight[s].op)
    /\ Respond(IF inflight[s].op = "phrase" THEN "turn" ELSE "end",
               inflight[s].id,
               IF inflight[s].op = "phrase" THEN "ended" ELSE "ok")
    /\ inflight' = [inflight EXCEPT ![s] = Idle]
    /\ UNCHANGED <<config, now, nextId, files, db, messageRows>>

Starts ==
    \/ \E p \in ParticipantIds : StartMissingParticipant(p)
    \/ \E p \in ParticipantIds : StartConversation(p)
    \/ \E importOk \in BOOLEAN, opening \in ReplyContents :
          FallbackChatStart("anon", importOk, opening)

Requests ==
    \/ \E id \in Ids, content \in BlankContents : TurnValidationError(id, content)
    \/ \E id \in Ids, content \in UserContents : TurnNotFound(id, content)
    \/ \E id \in Ids, content \in UserContents : TurnTimeout(id, content)
    \/ \E id \in Ids, content \in UserContents : TurnDataError(id, content)
    \/ \E s \in Slots, id \in Ids, content \in UserContents :
          TurnPhraseBegin(s, id, content)
    \/ \E s \in Slots, id \in Ids, content \in UserContents : TurnBegin(s, id, content)
    \/ \E id \in Ids : EndNotFound(id)
    \/ \E id \in Ids : EndDataError(id)
    \/ \E s \in Slots, id \in Ids : EndBegin(s, id)

Resumes ==
    \/ \E s \in Slots, outcome \in GenerationOutcomes, reply \in ReplyContents :
          TurnGenerated(s, outcome, reply)
    \/ \E s \in Slots : CloseSave(s)
    \/ \E s \in Slots : CloseEvict(s)

AllIdle == \A s \in Slots : inflight[s].op = "idle"

\* Requests are handled as they come, up to MaxInFlight at a time.
Next ==
    \/ Tick
    \/ nextId <= MaxConcurrentSessions /\ Starts
    \/ Requests
    \/ Resumes

Spec == Init /\ [][Next]_vars

\* One request at a time: a request arrives when no other is in flight.
NextSerial ==
    \/ Tick
    \/ AllIdle /\ Starts
    \/ AllIdle /\ Requests
    \/ Resumes

SpecSerial == Init /\ [][NextSerial]_vars

\* Turn submissions only, up to MaxInFlight at a time on one session.
TurnRequests ==
    \/ \E id \in Ids, content \in BlankContents : TurnValidationError(id, content)
    \/ \E id \in Ids, content \in UserContents : TurnNotFound(id, content)
    \/ \E id \in Ids, content \in UserContents : TurnTimeout(id, content)
    \/ \E id \in Ids, content \in UserContents : TurnDataError(id, content)
    \/ \E s \in Slots, id \in Ids, content \in UserContents : TurnBegin(s, id, content)

GenerationReturns ==
    \E s \in Slots, outcome \in GenerationOutcomes, reply \in ReplyContents :
        TurnGenerated(s, outcome, reply)

NextTurns ==
    \/ Tick
    \/ nextId <= MaxConcurrentSessions /\ \E p \in ParticipantIds : StartConversation(p)
    \/ TurnRequests
    \/ GenerationReturns

\* The await of generateAIResponse always resumes: the provider call is raced
\* against a 25 s timer, and every error of the race is caught.
SpecTurns == Init /\ [][NextTurns]_vars /\ WF_vars(GenerationReturns)

\* ------------------------------------------------------------- shutdown
\* gracefulShutdown up to its await: server.close() stops the listener (its
\* callback only logs), then closeDatabase is awaited.  With a client the
\* await is the I/O of $disconnect; without one closeDatabase does nothing,
\* the await resumes on the microtask queue and process.exit(0) follows
\* before any suspended request can resume.
gracefulShutdown ==
    /\ NoMicrotask
    /\ server = "listening"
    /\ server' = IF prisma THEN "closing" ELSE "exited"
    /\ startup' = IF prisma THEN startup ELSE [startup EXCEPT !.exitCode = 0]
    /\ UNCHANGED <<env, prisma, CHAT_DURATION_MS, launcher, isInitialized, call, now, nextId, files,
                   db, messageRows, activeConversations, inflight, closedBy>>
    /\ Silent

\* $disconnect has returned (or thrown: the error is logged): process.exit(0).
\* The requests still suspended at an await never resume.
closeDatabase ==
    /\ NoMicrotask
    /\ server = "closing"
    /\ server' = "exited"
    /\ startup' = [startup EXCEPT !.exitCode = 0]
    /\ UNCHANGED <<env, prisma, CHAT_DURATION_MS, launcher, isInitialized, call, now, nextId, files,
                   db, messageRows, activeConversations, inflight, closedBy>>
    /\ Silent

\* Turn submissions and a shutdown signal.  A closed listener takes no new
\* request; an exited process runs nothing.
NextShutdown ==
    \/ server # "exited" /\ Tick
    \/ /\ server = "listening"
       /\ nextId <= MaxConcurrentSessions
       /\ \E p \in ParticipantIds : StartConversation(p)
    \/ server = "listening" /\ TurnRequests
    \/ server # "exited" /\ GenerationReturns
    \/ gracefulShutdown
    \/ closeDatabase

SpecShutdown == Init /\ [][NextShutdown]_vars

\* -------------------------------------------------------------- startup
\* The process is started by the launcher (scripts/migrate-and-start.js, which
\* spawns the server) or as the server itself.  DATABASE_URL is set or not,
\* the PrismaClient constructor returns or throws, the database answers or
\* does not.
Entries == {"launcher", "server"}

InitStartup ==
    /\ env \in {"development", "production"}
    /\ prisma = FALSE
    /\ CHAT_DURATION_MS = TicksPerSecond
    /\ server = "starting"
    /\ \E entry \in Entries, url \in BOOLEAN, ok \in BOOLEAN, reachable \in BOOLEAN :
          startup = [entry |-> entry, DATABASE_URL |-> url, clientOk |-> ok,
                     reachable |-> reachable,
                     pc |-> IF entry = "launcher" THEN "main" ELSE "load",
                     exitCode |-> NULL]
    /\ now = 0
    /\ nextId = 1
    /\ files = <<>>
    /\ db = <<>>
    /\ messageRows = <<>>
    /\ activeConversations = <<>>
    /\ inflight = [s \in Slots |-> Idle]
    /\ closedBy = <<>>
    /\ call = NoCall
    /\ launcher = NoLauncher
    /\ isInitialized = prisma
    /\ last = [op |-> "none", id |-> 0, type |-> "none"]

\* process.exit(code), or the exit on an uncaught exception.
exit(code) ==
    /\ server' = "exited"
    /\ startup' = [startup EXCEPT !.pc = "done", !.exitCode = code]

\* The launcher's main: with DATABASE_URL set it runs prisma migrate deploy,
\* which fails when the database does not answer; a failure is fatal in
\* production and a warning otherwise.  Then it spawns the server.
main ==
    /\ startup.pc = "main"
    /\ IF startup.DATABASE_URL /\ ~startup.reachable /\ env = "production"
       THEN exit(1)
       ELSE /\ startup' = [startup EXCEPT !.pc = "load"]
            /\ UNCHANGED server
    /\ UNCHANGED <<env, prisma, CHAT_DURATION_MS, launcher, isInitialized, call, now, nextId, files, db, messageRows,
                   activeConversations, inflight, closedBy>>
    /\ Silent

\* initializePrisma, run while the server's modules load (the same function
\* in database.js and in lib/dataAccess.js).  Without DATABASE_URL it throws
\* in production, which ends the process, and returns null otherwise; with
\* it, the client is constructed, and a constructor that throws leaves null
\* in every mode.
initializePrisma ==
    /\ startup.pc = "load"
    /\ IF ~startup.DATABASE_URL /\ env = "production"
       THEN exit(1) /\ UNCHANGED prisma
       ELSE /\ prisma' = (startup.DATABASE_URL /\ startup.clientOk)
            /\ startup' = [startup EXCEPT !.pc = "startServer"]
            /\ UNCHANGED server
    /\ UNCHANGED <<env, CHAT_DURATION_MS, launcher, isInitialized, call, now, nextId, files, db, messageRows,
                   activeConversations, inflight, closedBy>>
    /\ Silent

\* startServer: initializeDatabase and isDatabaseAvailable are awaited, their
\* results are logged, and app.listen follows whatever they were.
startServer ==
    /\ startup.pc = "startServer"
    /\ server' = "listening"
    /\ startup' = [startup EXCEPT !.pc = "done"]
    /\ isInitialized' = (prisma /\ startup.reachable)
    /\ UNCHANGED <<env, prisma, CHAT_DURATION_MS, launcher, call, now, nextId, files, db, messageRows,
                   activeConversations, inflight, closedBy>>
    /\ Silent

NextStartup ==
    \/ main
    \/ initializePrisma
    \/ startServer
    \/ server = "listening" /\ NextTurns

SpecStartup == InitStartup /\ [][NextStartup]_vars

\* ------------------------------------------------------------ launcher
\* scripts/migrate-and-start.js: main checks the environment, generates the
\* Prisma client, runs the migrations when DATABASE_URL is set, creates the
\* data directories and spawns the server, whose exit and signals it then
\* relays.  steps records what main has run, in order.
InitLauncher ==
    /\ env \in {"development", "production"}
    /\ prisma = FALSE
    /\ CHAT_DURATION_MS = TicksPerSecond
    /\ server = "none"
    /\ \E url \in BOOLEAN, ok \in BOOLEAN, reachable \in BOOLEAN :
          startup = [entry |-> "launcher", DATABASE_URL |-> url, clientOk |-> ok,
                     reachable |-> reachable, pc |-> "main", exitCode |-> NULL]
    /\ \E set \in BOOLEAN, generateOk \in BOOLEAN, directoriesOk \in BOOLEAN,
          spawnOk \in BOOLEAN :
          launcher = [pc |-> "main", NODE_ENV |-> set, generateOk |-> generateOk,
                      directoriesOk |-> directoriesOk, spawnOk |-> spawnOk,
                      steps |-> <<>>, forwarded |-> FALSE, exitCode |-> NULL]
    /\ now = 0
    /\ nextId = 1
    /\ files = <<>>
    /\ db = <<>>
    /\ messageRows = <<>>
    /\ activeConversations = <<>>
    /\ inflight = [s \in Slots |-> Idle]
    /\ closedBy = <<>>
    /\ call = NoCall
    /\ isInitialized = FALSE
    /\ last = NoResponse

\* What the launcher's steps leave alone.
LauncherFrame ==
    /\ UNCHANGED <<env, prisma, CHAT_DURATION_MS, isInitialized, call, now, nextId, files,
                   db, messageRows, activeConversations, inflight, closedBy>>
    /\ Silent

\* process.exit(code) in the launcher, the steps run so far being done.
launcherExit(code, done) ==
    /\ launcher' = [launcher EXCEPT !.pc = "exited", !.exitCode = code, !.steps = done]
    /\ UNCHANGED <<server, startup>>

\* Steps 4 and 5 of main, which run without an await between them:
\* ensureDataDirectories, then startServer, which spawns node server.js.  A
\* spawn that fails is reported later by the child's 'error' event.
ensureDataDirectories(done) ==
    IF ~launcher.directoriesOk
    THEN launcherExit(1, done \o <<"directories">>)
    ELSE IF launcher.spawnOk
    THEN /\ launcher' = [launcher EXCEPT !.pc = "supervising",
                                         !.steps = done \o <<"directories", "spawn">>]
         /\ server' = "starting"
         /\ startup' = [startup EXCEPT !.pc = "load"]
    ELSE /\ launcher' = [launcher EXCEPT !.pc = "error",
                                         !.steps = done \o <<"directories", "spawn">>]
         /\ UNCHANGED <<server, startup>>

\* main up to its first await: checkEnvironmentVariables, which requires
\* NODE_ENV, then the start of prisma generate.
checkEnvironmentVariables ==
    /\ launcher.pc = "main"
    /\ IF ~launcher.NODE_ENV
       THEN launcherExit(1, <<"check">>)
       ELSE /\ launcher' = [launcher EXCEPT !.pc = "generate", !.steps = <<"check">>]
            /\ UNCHANGED <<server, startup>>
    /\ LauncherFrame

\* (mutant) main goes on whatever prisma generate exited with.
generatePrismaClient_IgnoresCode ==
    /\ launcher.pc = "generate"
    /\ IF startup.DATABASE_URL
       THEN /\ launcher' = [launcher EXCEPT !.pc = "migrate",
                                            !.steps = Append(@, "generate")]
            /\ UNCHANGED <<server, startup>>
       ELSE ensureDataDirectories(Append(launcher.steps, "generate"))
    /\ LauncherFrame

\* prisma generate has closed: a code other than 0 rejects, and main's catch
\* exits with 1.  Otherwise the migrations start when DATABASE_URL is set.
generatePrismaClient ==
    /\ launcher.pc = "generate"
    /\ IF ~launcher.generateOk
       THEN launcherExit(1, Append(launcher.steps, "generate"))
       ELSE IF startup.DATABASE_URL
       THEN /\ launcher' = [launcher EXCEPT !.pc = "migrate",
                                            !.steps = Append(@, "generate")]
            /\ UNCHANGED <<server, startup>>
       ELSE ensureDataDirectories(Append(launcher.steps, "generate"))
    /\ LauncherFrame

\* prisma migrate deploy has closed; it fails when the database does not
\* answer.  A failure is fatal in production and a warning otherwise.
runPrismaMigrations ==
    /\ launcher.pc = "migrate"
    /\ IF ~startup.reachable /\ env = "production"
       THEN launcherExit(1, Append(launcher.steps, "migrate"))
       ELSE ensureDataDirectories(Append(launcher.steps, "migrate"))
    /\ LauncherFrame

\* server.on('error'): the spawn failed.
onServerError ==
    /\ launcher.pc = "error"
    /\ launcherExit(1, launcher.steps)
    /\ LauncherFrame

\* process.on('SIGTERM' / 'SIGINT'): server.kill(signal).
onSignal ==
    /\ launcher.pc = "supervising"
    /\ ~launcher.forwarded
    /\ server # "exited"
    /\ launcher' = [launcher EXCEPT !.forwarded = TRUE]
    /\ UNCHANGED <<server, startup>>
    /\ LauncherFrame

\* The signal reaches a server that has not yet installed its handlers (they
\* are installed at the end of its startServer): the default action ends the
\* process, which then has a signal and no exit code.
serverKilled ==
    /\ launcher.forwarded
    /\ server = "starting"
    /\ server' = "exited"
    /\ startup' = [startup EXCEPT !.pc = "killed", !.exitCode = NULL]
    /\ UNCHANGED launcher
    /\ LauncherFrame

\* process.exit(code) with code null exits with 0.
exitStatus(code) == IF code = NULL THEN 0 ELSE code

\* server.on('exit', code): process.exit(code).
onServerExit ==
    /\ launcher.pc = "supervising"
    /\ server = "exited"
    /\ launcherExit(exitStatus(startup.exitCode), launcher.steps)
    /\ LauncherFrame

NextLauncher ==
    \/ checkEnvironmentVariables
    \/ generatePrismaClient
    \/ runPrismaMigrations
    \/ onServerError
    \/ ~launcher.forwarded /\ initializePrisma
    \/ ~launcher.forwarded /\ startServer
    \/ onSignal
    \/ serverKilled
    \/ launcher.forwarded /\ gracefulShutdown
    \/ closeDatabase
    \/ onServerExit

SpecLauncher == InitLauncher /\ [][NextLauncher]_vars

\* ------------------------------------------------------ the end phrase
\* shouldEndNow on texts, character by character.  \\b and /i are those of a
\* regular expression without the u flag: a word character is one of
\* [A-Za-z0-9_], and the letters of the phrase match in either case.
LowerCase == "abcdefghijklmnopqrstuvwxyz"
UpperCase == "ABCDEFGHIJKLMNOPQRSTUVWXYZ"
WordCharacters == LowerCase \o UpperCase \o "0123456789_"
WhiteSpace == {" ", "\t", "\n", "\r"}

charAt(text, i) == IF i \in 1..Len(text) THEN SubSeq(text, i, i) ELSE ""

WordCharacterSet == {charAt(WordCharacters, i) : i \in 1..Len(WordCharacters)}

isWordCharacter(c) == c \in WordCharacterSet

\* The lower-case letter of each upper-case letter.
LowerOf ==
    [c \in {charAt(UpperCase, i) : i \in 1..Len(UpperCase)} |->
        charAt(LowerCase, CHOOSE i \in 1..Len(UpperCase) : charAt(UpperCase, i) = c)]

RECURSIVE toLowerCase(_)
toLowerCase(text) ==
    IF text = "" THEN ""
    ELSE LET c == charAt(text, 1)
         IN  (IF c \in DOMAIN LowerOf THEN LowerOf[c] ELSE c)
             \o toLowerCase(SubSeq(text, 2, Len(text)))

\* String.prototype.trim
RECURSIVE trimText(_)
trimText(text) ==
    IF text = "" THEN ""
    ELSE IF charAt(text, 1) \in WhiteSpace THEN trimText(SubSeq(text, 2, Len(text)))
    ELSE IF charAt(text, Len(text)) \in WhiteSpace
         THEN trimText(SubSeq(text, 1, Len(text) - 1))
    ELSE text

\* \b between the characters i and i + 1 (0 is the start, Len the end).
wordBoundary(text, i) ==
    isWordCharacter(charAt(text, i)) # isWordCharacter(charAt(text, i + 1))

EndPhrase == "end the chat"

\* (mutant) the phrase is searched as a substring, without \b.
shouldEndNowText_Substring(text) ==
    /\ text # ""
    /\ LET t == trimText(text)
       IN  \E i \in 0..Len(t) :
              /\ i + Len(EndPhrase) <= Len(t)
              /\ toLowerCase(SubSeq(t, i + 1, i + Len(EndPhrase))) = EndPhrase

\* if (!text) return false; return /\bend the chat\b/i.test(text.trim());
shouldEndNowText(text) ==
    /\ text # ""
    /\ LET t == trimText(text)
       IN  \E i \in 0..Len(t) :
              /\ i + Len(EndPhrase) <= Len(t)
              /\ wordBoundary(t, i)
              /\ toLowerCase(SubSeq(t, i + 1, i + Len(EndPhrase))) = EndPhrase
              /\ wordBoundary(t, i + Len(EndPhrase))

\* The texts tried: a core between a prefix and a suffix.
Cores ==
    {"please end the chat now", "END THE CHAT", "End the Chat", "end the chat",
     "endings of the chat show", "end the chatroom", "end  the chat",
     "end\tthe chat", "end the", "hello"}
Prefixes == {"", " ", "x", "x ", "!", "_", "9", "\n "}
Suffixes == {"", " ", "s", " s", "!", "_", "9", " \n"}
Texts == {p \o c \o x : p \in Prefixes, c \in Cores, x \in Suffixes}

InitShouldEndNow ==
    /\ env = "development"
    /\ prisma = FALSE
    /\ CHAT_DURATION_MS = TicksPerSecond
    /\ server = "listening"
    /\ startup = Started(prisma)
    /\ now = 0
    /\ nextId = 1
    /\ files = <<>>
    /\ db = <<>>
    /\ messageRows = <<>>
    /\ activeConversations = <<>>
    /\ inflight = [s \in Slots |-> Idle]
    /\ closedBy = <<>>
    /\ last = NoResponse
    /\ \E text \in Texts :
          call = [fn |-> "shouldEndNow", input |-> text, done |-> FALSE,
                  output |-> FALSE]
    /\ launcher = NoLauncher
    /\ isInitialized = prisma

ShouldEndNowCall ==
    /\ call.fn = "shouldEndNow"
    /\ ~call.done
    /\ call' = [call EXCEPT !.done = TRUE, !.output = shouldEndNowText(call.input)]
    /\ UNCHANGED <<env, prisma, CHAT_DURATION_MS, launcher, isInitialized, server, startup, now, nextId,
                   files, db, messageRows, activeConversations, inflight, closedBy, last>>

NextShouldEndNow == ShouldEndNowCall

SpecShouldEndNow == InitShouldEndNow /\ [][NextShouldEndNow]_vars

\* -------------------------------------------- the synthesized summary
\* fallbackGenerateSummary on texts.  String.prototype.includes:
includes(text, w) ==
    \E i \in 1..Len(text) :
        i + Len(w) - 1 <= Len(text) /\ SubSeq(text, i, i + Len(w) - 1) = w

MinContentLength == 10
MinPoints == 2
MaxPoints == 5

\* participants/<participantId>.json as readJson returns it, reduced to the
\* two fields read; an absent file or field is the empty direction.
Participant(direction, otherText) ==
    [belief_change |-> [mind_change_direction |-> direction,
                        mind_change_other_text |-> otherText]]

\* (mutant) the sentences of the two cause codes are exchanged.
changeDesc_Exchanged(direction, otherText) ==
    CASE direction = "exists_to_not_exists" ->
             "From thinking climate change exists, to thinking it does not exist"
      [] direction = "not_exists_to_exists" ->
             "From thinking climate change does not exist, to thinking it exists"
      [] direction = "not_urgent_to_urgent" ->
             "From thinking climate change is not urgent, to thinking it is urgent"
      [] direction = "urgent_to_not_urgent" ->
             "From thinking climate change is urgent, to thinking it is not urgent"
      [] direction = "human_to_natural" ->
             "From thinking climate change is natural, to thinking it is human-caused"
      [] direction = "natural_to_human" ->
             "From thinking climate change is human-caused, to thinking it is natural"
      [] direction = "other" ->
             IF otherText # "" THEN otherText
             ELSE "Other belief change described by participant"
      [] OTHER -> ""

\* The switch on mind_change_direction.
changeDesc(direction, otherText) ==
    CASE direction = "exists_to_not_exists" ->
             "From thinking climate change exists, to thinking it does not exist"
      [] direction = "not_exists_to_exists" ->
             "From thinking climate change does not exist, to thinking it exists"
      [] direction = "not_urgent_to_urgent" ->
             "From thinking climate change is not urgent, to thinking it is urgent"
      [] direction = "urgent_to_not_urgent" ->
             "From thinking climate change is urgent, to thinking it is not urgent"
      [] direction = "human_to_natural" ->
             "From thinking climate change is human-caused, to thinking it is natural"
      [] direction = "natural_to_human" ->
             "From thinking climate change is natural, to thinking it is human-caused"
      [] direction = "other" ->
             IF otherText # "" THEN otherText
             ELSE "Other belief change described by participant"
      [] OTHER -> ""

ProfilePoint(desc) == "You described your belief change: " \o desc
EvidencePoint == "You discussed the role of evidence and research in shaping your views"
PersonalPoint == "You shared personal experiences that influenced your thinking"
SocialPoint == "You talked about how other people influenced your perspective"
MediaPoint == "You mentioned media sources that affected your views"
ChangeProcessPoint == "You described the process of how your beliefs evolved"
FillerPoints ==
    <<"You engaged in a conversation about your climate change belief journey",
      "You shared your perspective on what influences belief change">>

\* The words that set each theme.
themes ==
    [evidence |-> {"evidence", "research", "study", "data"},
     personal |-> {"experience", "personal", "saw", "noticed", "felt"},
     social |-> {"people", "family", "friend", "others"},
     media |-> {"media", "news", "article", "tv"},
     change_process |-> {"change", "shift", "different", "realized"}]

\* The filter on messages.
userMessages(messages) ==
    SelectSeq(messages,
              LAMBDA msg : /\ msg.role = "user"
                           /\ msg.content # ""
                           /\ Len(trimText(msg.content)) > MinContentLength
                           /\ ~includes(toLowerCase(msg.content), EndPhrase))

\* msg.content.toLowerCase() of each message read.
contents(messages) ==
    LET read == userMessages(messages)
    IN  [i \in 1..Len(read) |-> toLowerCase(read[i].content)]

\* themes.<theme> after the forEach over the lower-cased contents.
themeSet(texts, theme) ==
    \E i \in 1..Len(texts) : \E w \in themes[theme] : includes(texts[i], w)

\* summaryPoints before the filler and the slice.
summaryPoints(messages, participant) ==
    LET direction == participant.belief_change.mind_change_direction
        desc == changeDesc(direction, participant.belief_change.mind_change_other_text)
        texts == contents(messages)
    IN  (IF direction # "" /\ desc # "" THEN <<ProfilePoint(desc)>> ELSE <<>>)
        \o (IF themeSet(texts, "evidence") THEN <<EvidencePoint>> ELSE <<>>)
        \o (IF themeSet(texts, "personal") THEN <<PersonalPoint>> ELSE <<>>)
        \o (IF themeSet(texts, "social") THEN <<SocialPoint>> ELSE <<>>)
        \o (IF themeSet(texts, "media") THEN <<MediaPoint>> ELSE <<>>)
        \o (IF themeSet(texts, "change_process") THEN <<ChangeProcessPoint>> ELSE <<>>)

\* (mutant) the list is returned without the slice.
fallbackGenerateSummary_Unsliced(messages, participant) ==
    LET points == summaryPoints(messages, participant)
        one == IF Len(points) < MinPoints THEN Append(points, FillerPoints[1]) ELSE points
    IN  IF Len(one) < MinPoints THEN Append(one, FillerPoints[2]) ELSE one

\* fallbackGenerateSummary(messages, participantId), participant being what
\* readJson returns for the participant's file.
fallbackGenerateSummary(messages, participant) ==
    LET points == summaryPoints(messages, participant)
        one == IF Len(points) < MinPoints THEN Append(points, FillerPoints[1]) ELSE points
        two == IF Len(one) < MinPoints THEN Append(one, FillerPoints[2]) ELSE one
    IN  SubSeq(two, 1, IF Len(two) < MaxPoints THEN Len(two) ELSE MaxPoints)

\* The inputs tried.  Texts shorter and longer than the filter's length, with
\* and without the end phrase, in either case, with the words of no theme,
\* of some themes and of all five.
SummaryTexts ==
    {"research", "my family", "  research   ",
     "I read research and my family agreed",
     "RESEARCH convinced My Family",
     "my family did the research",
     "research and my family: End the chat",
     "I saw it on the news and things change",
     "research saw family news change",
     "nothing to add here"}

SummaryMessages ==
    {Message("user", text) : text \in SummaryTexts}
    \cup {Message("assistant", "research saw family news change")}

RECURSIVE ListsUpTo(_, _)
ListsUpTo(S, n) ==
    IF n = 0 THEN {<<>>}
    ELSE ListsUpTo(S, n - 1)
         \cup {Append(l, m) : l \in {k \in ListsUpTo(S, n - 1) : Len(k) = n - 1}, m \in S}

Participants ==
    {Participant("", ""), Participant("natural_to_human", ""),
     Participant("human_to_natural", ""), Participant("other", ""),
     Participant("other", "my own words"), Participant("sideways", "")}

InitSummary ==
    /\ env = "development"
    /\ prisma = FALSE
    /\ CHAT_DURATION_MS = TicksPerSecond
    /\ server = "listening"
    /\ startup = Started(prisma)
    /\ now = 0
    /\ nextId = 1
    /\ files = <<>>
    /\ db = <<>>
    /\ messageRows = <<>>
    /\ activeConversations = <<>>
    /\ inflight = [s \in Slots |-> Idle]
    /\ closedBy = <<>>
    /\ last = NoResponse
    /\ \E messages \in ListsUpTo(SummaryMessages, MaxUserMsgs),
          participant \in Participants :
          call = [fn |-> "fallbackGenerateSummary",
                  input |-> [messages |-> messages, participant |-> participant],
                  done |-> FALSE, output |-> <<>>]
    /\ launcher = NoLauncher
    /\ isInitialized = prisma

FallbackGenerateSummaryCall ==
    /\ call.fn = "fallbackGenerateSummary"
    /\ ~call.done
    /\ call' = [call EXCEPT
                  !.done = TRUE,
                  !.output = fallbackGenerateSummary(call.input.messages,
                                                     call.input.participant)]
    /\ UNCHANGED <<env, prisma, CHAT_DURATION_MS, launcher, isInitialized, server, startup, now, nextId,
                   files, db, messageRows, activeConversations, inflight, closedBy, last>>

NextSummary == FallbackGenerateSummaryCall

SpecSummary == InitSummary /\ [][NextSummary]_vars

\* ------------------------------------------- the safety net called twice
\* fallbackEnsureConversationSummary called twice in a row on one stored
\* session, no request in between.  The stored list is any list of up to
\* MaxStored messages a conversation can have left behind.
StoredMessages ==
    {Message("user", "text"), Message("assistant", "reply"),
     Message("assistant", "reply2b"), Message("assistant", "reply2u")}

StoredLists == UNION {[1..n -> StoredMessages] : n \in 0..MaxStored}

InitEnsure ==
    /\ env \in {"development", "production"}
    /\ prisma \in BOOLEAN
    /\ env = "production" => prisma
    /\ CHAT_DURATION_MS = TicksPerSecond
    /\ server = "listening"
    /\ startup = Started(prisma)
    /\ now = 0
    /\ nextId = 2
    /\ \E messages \in StoredLists :
          LET stored == [id |-> 1, participantId |-> "p1", startedAt |-> 0,
                         endedAt |-> NULL, durationSeconds |-> NULL,
                         messages |-> messages]
          IN  /\ files = saveSessionFiles(<<>>, stored)
              /\ db = saveSessionDb(<<>>, stored)
              /\ messageRows = saveSessionRows(<<>>, stored)
    /\ activeConversations =
           Put(<<>>, 1, [participantId |-> "p1", startedAt |-> 0, lastActivity |-> 0])
    /\ inflight = [s \in Slots |-> Idle]
    /\ closedBy = <<>>
    /\ call = NoCall
    /\ launcher = NoLauncher
    /\ isInitialized = prisma
    /\ last = NoResponse

EnsureCall(s, id, from, to) ==
    /\ inflight[s].pc = from
    /\ \A r \in Slots : r # s => inflight[r].op = "idle"
    /\ files' = ensureSummaryFiles(files, id)
    /\ db' = ensureSummaryDb(files, db, id)
    /\ messageRows' = ensureSummaryRows(files, messageRows, id)
    /\ inflight' = [inflight EXCEPT ![s] =
           [Idle EXCEPT !.op = "ensure", !.id = id, !.pc = to,
                        !.pre = IF from = "idle"
                                THEN (IF readable(files, id)
                                      THEN files[id].messages ELSE <<>>)
                                ELSE inflight[s].pre]]
    /\ UNCHANGED <<config, now, nextId, activeConversations, closedBy, last>>

EnsureFirstCall == EnsureCall(1, 1, "idle", "once")

EnsureSecondCall == EnsureCall(1, 1, "once", "twice")

NextEnsure ==
    \/ EnsureFirstCall
    \/ EnsureSecondCall

SpecEnsure == InitEnsure /\ [][NextEnsure]_vars

\* ------------------------------------------------- the storage functions
\* dataAccess.saveSession, and saveSession and getSession of database.js,
\* called one at a time with stores that may fail.
StoreSessions ==
    {[id |-> 1, participantId |-> p, startedAt |-> 0, endedAt |-> e,
      durationSeconds |-> IF e = NULL THEN NULL ELSE 0, messages |-> m] :
        p \in ParticipantIds, e \in {NULL, 1},
        m \in {<<>>, <<Message("user", "text")>>}}
    \cup {[id |-> 1, participantId |-> "p1", startedAt |-> 0, endedAt |-> NULL,
            durationSeconds |-> NULL,
            messages |-> <<Message("user", "text"), Message("assistant", "reply")>>]}

resultsType(results) ==
    CASE results.file /\ results.database -> "file+database"
      [] results.file /\ ~results.database -> "file"
      [] ~results.file /\ results.database -> "database"
      [] OTHER -> "none"

SaveSession(sessionData, fileOk, dbFail) ==
    /\ files' = saveSessionFilesIf(files, sessionData, fileOk)
    /\ db' = saveSessionDbIf(db, sessionData, dbFail)
    /\ messageRows' = saveSessionRowsIf(messageRows, sessionData, dbFail)
    /\ Respond("saveSession", sessionData.id,
               resultsType(saveSessionResults(sessionData, fileOk, dbFail)))
    /\ UNCHANGED <<config, now, nextId, activeConversations, inflight, closedBy>>

\* isDatabaseAvailable: a client exists and SELECT 1 succeeds.
isDatabaseAvailable(reachable) == prisma /\ reachable

\* saveSession of database.js: the file is the fallback when the database is
\* unavailable or the Session upsert rejects (saveMessages logs and swallows
\* its own errors), and the backup of a good save outside production.
DatabaseSaveSession(data, reachable, fileOk, dbFail) ==
    /\ LET primary == isDatabaseAvailable(reachable) /\ dbFail # "upsert"
           toFile == fileOk /\ (~primary \/ env # "production")
       IN  /\ db' = IF primary THEN Put(db, data.id, data) ELSE db
           /\ messageRows' = IF primary
                              THEN saveSessionRowsIf(messageRows, data, dbFail)
                              ELSE messageRows
           /\ files' = IF toFile THEN Put(files, data.id, data) ELSE files
           /\ Respond("database.saveSession", data.id,
                      IF primary \/ fileOk THEN "data" ELSE "null")
    /\ UNCHANGED <<config, now, nextId, activeConversations, inflight, closedBy>>

\* getSession of database.js: the file is read when the database is
\* unavailable or findUnique rejects; a findUnique that finds no row
\* returns null.
GetSession(sessionId, reachable, queryOk) ==
    /\ Respond("getSession", sessionId,
               IF isDatabaseAvailable(reachable) /\ queryOk
               THEN (IF sessionId \in DOMAIN db THEN "primary" ELSE "null")
               ELSE (IF readable(files, sessionId) THEN "file" ELSE "null"))
    /\ UNCHANGED <<config, now, nextId, files, db, messageRows, activeConversations,
                   inflight, closedBy>>

NextStore ==
    \/ \E sessionData \in StoreSessions, fileOk \in BOOLEAN, dbFail \in DbFailures :
          SaveSession(sessionData, fileOk, dbFail)
    \/ \E data \in StoreSessions, reachable \in BOOLEAN, fileOk \in BOOLEAN,
          dbFail \in DbFailures :
          DatabaseSaveSession(data, reachable, fileOk, dbFail)
    \/ \E sessionId \in Ids, reachable \in BOOLEAN, queryOk \in BOOLEAN :
          GetSession(sessionId, reachable, queryOk)

SpecStore == Init /\ [][NextStore]_vars

\* ----------------------------------------------------- clearing all data
\* DELETE /api/admin/clear-all-data and clearAllData of database.js, called
\* between saves that fill the stores.
ClearSessions ==
    {sessionData \in StoreSessions :
        sessionData.participantId = "p1" /\ Len(sessionData.messages) = 1}

\* The deleteMany calls of clearAllData in their order.
ClearFailures == {"none", "messages", "differences", "sessions"}

\* clearFileStorage: every .json file is unlinked; the first unlinkSync that
\* throws ends the loop in the catch, which only notes the error.
clearFileStorage(f, unlinkOk) == IF unlinkOk \/ f = <<>> THEN <<>> ELSE f

\* result.success of clearAllData: the file-only return value is the bare
\* summary of clearFileStorage, which has no success field.
clearAllDataSuccess(reachable, dbFail) ==
    isDatabaseAvailable(reachable) /\ dbFail = "none"

\* The confirmed request: Message, IndividualDifferences and Session rows
\* are deleted in this order up to the first rejection, the files are
\* cleared on every path, and the answer is 200 exactly when result.success.
ClearAllData(reachable, dbFail, unlinkOk) ==
    /\ files' = clearFileStorage(files, unlinkOk)
    /\ messageRows' = IF isDatabaseAvailable(reachable) /\ dbFail # "messages"
                      THEN <<>> ELSE messageRows
    /\ db' = IF isDatabaseAvailable(reachable) /\ dbFail = "none" THEN <<>> ELSE db
    /\ Respond("clear", 0,
               IF clearAllDataSuccess(reachable, dbFail)
               THEN "cleared" ELSE "clear_failed")
    /\ UNCHANGED <<config, now, nextId, activeConversations, inflight, closedBy>>

\* The request without confirm=DELETE_ALL_DATA is answered 400.
ClearUnconfirmed ==
    /\ Respond("clear", 0, "confirmation_required")
    /\ UNCHANGED <<config, now, nextId, files, db, messageRows, activeConversations,
                   inflight, closedBy>>

NextClear ==
    \/ \E sessionData \in ClearSessions, fileOk \in BOOLEAN :
          SaveSession(sessionData, fileOk, "none")
    \/ \E reachable \in BOOLEAN, dbFail \in ClearFailures, unlinkOk \in BOOLEAN :
          ClearAllData(reachable, dbFail, unlinkOk)
    \/ ClearUnconfirmed

SpecClear == Init /\ [][NextClear]_vars

\* ------------------------------------------- the client and its flag
\* database.js keeps the client in prisma and the flag isInitialized; its
\* isDatabaseAvailable, initializeDatabase and closeDatabase are called one
\* after the other, in any order, while the database comes and goes.
InitDatabase ==
    /\ env \in {"development", "production"}
    /\ prisma = FALSE
    /\ isInitialized = FALSE
    /\ CHAT_DURATION_MS = TicksPerSecond
    /\ server = "listening"
    /\ \E url \in BOOLEAN, ok \in BOOLEAN, reachable \in BOOLEAN :
          startup = [entry |-> "server", DATABASE_URL |-> url, clientOk |-> ok,
                     reachable |-> reachable, pc |-> "done", exitCode |-> NULL]
    /\ now = 0
    /\ nextId = 1
    /\ files = <<>>
    /\ db = <<>>
    /\ messageRows = <<>>
    /\ activeConversations = <<>>
    /\ inflight = [s \in Slots |-> Idle]
    /\ closedBy = <<>>
    /\ call = NoCall
    /\ launcher = NoLauncher
    /\ last = NoResponse

DatabaseFrame ==
    UNCHANGED <<env, CHAT_DURATION_MS, server, launcher, now, nextId, files, db,
                messageRows, activeConversations, inflight, closedBy>>

\* initializePrisma throws: production without DATABASE_URL, no client yet.
initializePrismaThrows == ~prisma /\ ~startup.DATABASE_URL /\ env = "production"

\* The client after if (!prisma) prisma = initializePrisma(): the one there
\* is, or a new one when DATABASE_URL is set and the constructor returns.
clientAfterCheck == prisma \/ (startup.DATABASE_URL /\ startup.clientOk)

\* The call of initializeDatabase or closeDatabase suspended at an await.
Awaiting(fn, at) == [fn |-> fn, input |-> <<at>>, done |-> FALSE, output |-> <<>>]

\* isDatabaseAvailable, as the request handlers call it at any time: it
\* creates the client if there is none, then answers what SELECT 1 gives.
IsDatabaseAvailableCall ==
    /\ prisma' = IF initializePrismaThrows THEN prisma ELSE clientAfterCheck
    /\ Respond("isDatabaseAvailable", 0,
               IF initializePrismaThrows THEN "throws"
               ELSE IF clientAfterCheck /\ startup.reachable THEN "true" ELSE "false")
    /\ UNCHANGED <<isInitialized, startup, call>>
    /\ DatabaseFrame

\* initializeDatabase up to the await of SELECT 1: true at once when the
\* flag is set; otherwise isDatabaseAvailable creates the client if there
\* is none and answers false without one.
InitializeDatabaseBegin ==
    /\ call = NoCall
    /\ prisma' = IF isInitialized \/ initializePrismaThrows THEN prisma
                 ELSE clientAfterCheck
    /\ IF isInitialized \/ initializePrismaThrows \/ ~clientAfterCheck
       THEN /\ Respond("initializeDatabase", 0,
                       IF isInitialized THEN "true"
                       ELSE IF initializePrismaThrows THEN "throws" ELSE "false")
            /\ UNCHANGED call
       ELSE /\ call' = Awaiting("initializeDatabase", "query")
            /\ Silent
    /\ UNCHANGED <<isInitialized, startup>>
    /\ DatabaseFrame

\* SELECT 1 has returned: $connect follows when it succeeded.
InitializeDatabaseQueried ==
    /\ call = Awaiting("initializeDatabase", "query")
    /\ IF startup.reachable
       THEN /\ call' = Awaiting("initializeDatabase", "connect")
            /\ Silent
       ELSE /\ call' = NoCall
            /\ Respond("initializeDatabase", 0, "false")
    /\ UNCHANGED <<prisma, isInitialized, startup>>
    /\ DatabaseFrame

\* $connect has returned (the findFirst after it swallows its own error):
\* the flag is set when it resolved.
InitializeDatabaseConnected(connectOk) ==
    /\ call = Awaiting("initializeDatabase", "connect")
    /\ call' = NoCall
    /\ isInitialized' = connectOk
    /\ Respond("initializeDatabase", 0, IF connectOk THEN "true" ELSE "false")
    /\ UNCHANGED <<prisma, startup>>
    /\ DatabaseFrame

\* closeDatabase up to the await of $disconnect; nothing without a client.
CloseDatabaseBegin ==
    /\ call = NoCall
    /\ IF prisma
       THEN /\ call' = Awaiting("closeDatabase", "disconnect")
            /\ Silent
       ELSE /\ Respond("closeDatabase", 0, "done")
            /\ UNCHANGED call
    /\ UNCHANGED <<prisma, isInitialized, startup>>
    /\ DatabaseFrame

\* (mutant) the resolved disconnect forgets the client and keeps the flag.
CloseDatabaseDisconnected_KeepsFlag(disconnectOk) ==
    /\ call = Awaiting("closeDatabase", "disconnect")
    /\ call' = NoCall
    /\ prisma' = (prisma /\ ~disconnectOk)
    /\ Respond("closeDatabase", 0, IF disconnectOk THEN "disconnected" ELSE "logged")
    /\ UNCHANGED <<isInitialized, startup>>
    /\ DatabaseFrame

\* $disconnect has returned: when it resolved the client and the flag are
\* reset, when it rejected the error is logged and both stay.
CloseDatabaseDisconnected(disconnectOk) ==
    /\ call = Awaiting("closeDatabase", "disconnect")
    /\ call' = NoCall
    /\ prisma' = (prisma /\ ~disconnectOk)
    /\ isInitialized' = (isInitialized /\ ~disconnectOk)
    /\ Respond("closeDatabase", 0, IF disconnectOk THEN "disconnected" ELSE "logged")
    /\ UNCHANGED startup
    /\ DatabaseFrame

\* The database stops or starts answering.
DatabaseOutage ==
    /\ startup' = [startup EXCEPT !.reachable = ~@]
    /\ UNCHANGED <<prisma, isInitialized, call>>
    /\ DatabaseFrame
    /\ Silent

NextDatabase ==
    \/ IsDatabaseAvailableCall
    \/ InitializeDatabaseBegin
    \/ InitializeDatabaseQueried
    \/ \E connectOk \in BOOLEAN : InitializeDatabaseConnected(connectOk)
    \/ CloseDatabaseBegin
    \/ \E disconnectOk \in BOOLEAN : CloseDatabaseDisconnected(disconnectOk)
    \/ DatabaseOutage

SpecDatabase == InitDatabase /\ [][NextDatabase]_vars

\* ----------------------------------------------------------------- claims
\* A turn with text `content` for session `id` reaches the message handler.
TurnArrival(id, content) ==
    \/ TurnNotFound(id, content)
    \/ TurnTimeout(id, content)
    \/ TurnDataError(id, content)
    \/ \E s \in Slots : TurnPhraseBegin(s, id, content)
    \/ \E s \in Slots : TurnBegin(s, id, content)

Records(store) == {store[id] : id \in DOMAIN store}

\* C1: in every persisted session record, of the file store and of the
\* primary store, endedAt and durationSeconds are both null or both set.
C1_EndAndDurationTogether ==
    \A r \in Records(files) \cup Records(db) :
        (r.endedAt = NULL) <=> (r.durationSeconds = NULL)

\* C2: a non-empty turn for an id that is not in the tracker is answered
\* conversation_not_found and changes neither store nor the tracker.
C2_UntrackedTurnNotFound ==
    [][\A id \in Ids, content \in UserContents :
          (TurnArrival(id, content) /\ id \notin DOMAIN activeConversations)
          => /\ last' = [op |-> "turn", id |-> id, type |-> "conversation_not_found"]
             /\ UNCHANGED <<files, db, activeConversations>>]_vars

\* C2 witness: a turn for a session that was closed, and whose record is
\* still stored, has just been answered conversation_not_found.
C2_Witness ==
    \E id \in DOMAIN closedBy :
        /\ readable(files, id)
        /\ last = [op |-> "turn", id |-> id, type |-> "conversation_not_found"]

\* C3: a non-empty turn for a tracked session whose elapsed time has reached
\* the configured limit is answered timeout, whatever its text, and the
\* session leaves the tracker.
C3_TimeoutAtLimit ==
    [][\A id \in Ids, content \in UserContents :
          ( /\ id \in DOMAIN activeConversations
            /\ now - activeConversations[id].startedAt >= CHAT_DURATION_MS
            /\ TurnArrival(id, content) )
          => /\ last' = [op |-> "turn", id |-> id, type |-> "timeout"]
             /\ id \notin DOMAIN activeConversations']_vars

\* C4: a session that has left the tracker, by whichever exit, has a closed
\* persisted record: endedAt and durationSeconds are set.
C4_EvictedIsClosed ==
    \A id \in DOMAIN closedBy :
        /\ id \in DOMAIN files =>
               files[id].endedAt # NULL /\ files[id].durationSeconds # NULL
        /\ id \in DOMAIN db =>
               db[id].endedAt # NULL /\ db[id].durationSeconds # NULL

\* C5: once a stored record has endedAt set, no step changes the record.
C5_ClosedRecordImmutable ==
    [][\A id \in DOMAIN files :
          files[id].endedAt # NULL
          => id \in DOMAIN files' /\ files'[id] = files[id]]_vars

\* C6: an id enters the tracker only as the fresh id of a start: it was
\* never tracked, never closed and never stored before.
C6_NoReopen ==
    [][\A id \in Ids :
          (id \in DOMAIN activeConversations' /\ id \notin DOMAIN activeConversations)
          => /\ id = nextId
             /\ nextId' > nextId
             /\ id \notin DOMAIN closedBy
             /\ id \notin DOMAIN files
             /\ id \notin DOMAIN db]_vars

\* C6 witness: after one session was closed, a later start tracks another id.
C6_Witness ==
    \E old \in DOMAIN closedBy, new \in DOMAIN activeConversations :
        /\ new > old
        /\ old \notin DOMAIN activeConversations

IsSummary(m) == m.role = "assistant" /\ looksLikeSummary(m.content)

ClosingCount(messages) ==
    Cardinality({k \in 1..Len(messages) : messages[k] = finalMessage})

\* The list ends with the closing message and a summary stands before it.
EndsWithClosingAfterSummary(messages) ==
    /\ Len(messages) > 0
    /\ messages[Len(messages)] = finalMessage
    /\ \E k \in 1..(Len(messages) - 1) : IsSummary(messages[k])

GeneratedCount(messages) ==
    Cardinality({k \in 1..Len(messages) : messages[k].generated_summary})

\* C8: a session closed by an explicit end or by the phrase has, among its
\* stored messages, an assistant message the detector accepts, and at most
\* one message flagged generated_summary.
C8_ClosedHasSummary ==
    \A id \in DOMAIN closedBy \cap DOMAIN files :
        closedBy[id] \in {"phrase", "end"}
        => /\ \E k \in 1..Len(files[id].messages) : IsSummary(files[id].messages[k])
           /\ GeneratedCount(files[id].messages) <= 1

\* C8 witness: one closed session whose summary was synthesized, another
\* whose summary came from the reply stream.
C8_Witness ==
    \E a \in DOMAIN closedBy \cap DOMAIN files,
       b \in DOMAIN closedBy \cap DOMAIN files :
        /\ closedBy[a] \in {"phrase", "end"}
        /\ GeneratedCount(files[a].messages) = 1
        /\ closedBy[b] \in {"phrase", "end"}
        /\ GeneratedCount(files[b].messages) = 0

C10_EnsureSummaryIdempotent ==
    \A s \in Slots :
        (inflight[s].op = "ensure" /\ readable(files, inflight[s].id))
        => LET pre == inflight[s].pre
               messages == files[inflight[s].id].messages
           IN  \/ messages = pre /\ fallbackHasExistingSummary(pre)
               \/ /\ messages = Append(pre, summaryMessage)
                  /\ ~fallbackHasExistingSummary(pre)

\* C10 witness: two calls were made on a list whose only summary-like reply
\* lay outside the detector's window; one summary message was appended.
C10_Witness ==
    \E s \in Slots :
        /\ inflight[s].op = "ensure"
        /\ inflight[s].pc = "twice"
        /\ readable(files, inflight[s].id)
        /\ \E k \in 1..Len(inflight[s].pre) : IsSummary(inflight[s].pre[k])
        /\ files[inflight[s].id].messages = Append(inflight[s].pre, summaryMessage)

\* The bullet markers a reader counts in a text: the points led by '-', '*'
\* or U+2022.
BulletMarkers(content) ==
    CASE content \in {"reply2b", "reply2u"} -> 2
      [] content = "reply1b" -> 1
      [] OTHER -> 0

LastAssistantContent(messages) ==
    LET a == SelectRole(messages, "assistant") IN a[Len(a)].content

Generating(s) == inflight[s].op = "turn" /\ inflight[s].pc = "generate"

\* C12: however the reply-generation call ends (timeout, network error,
\* rate limit, empty completion, no key), the turn is answered with a reply,
\* the reply stored being the fallback text, never with an error; and every
\* turn that waits for the call is eventually answered.
C12_GenerationFailureStillReplies ==
    /\ [][\A s \in Slots, outcome \in GenerationOutcomes \ {"ok"},
             reply \in ReplyContents :
             TurnGenerated(s, outcome, reply)
             => /\ ~generateAIResponse(outcome, reply).threw
                /\ generateAIResponse(outcome, reply).value = "fallback"
                /\ last' = [op |-> "turn", id |-> inflight[s].id, type |-> "reply"]
                /\ fileWritten =>
                       LET m == files'[inflight[s].id].messages
                       IN  m[Len(m)] = Message("assistant", "fallback")]_vars
    /\ \A s \in Slots : Generating(s) ~> ~Generating(s)

\* C12 witness: a turn was answered with the fallback reply, which is stored.
C12_Witness ==
    \E id \in DOMAIN files :
        /\ last = [op |-> "turn", id |-> id, type |-> "reply"]
        /\ Len(files[id].messages) >= 2
        /\ files[id].messages[Len(files[id].messages)] = Message("assistant", "fallback")

\* C13: when the reply-generation call of a turn fails (timeout, network
\* error, rate limit, empty completion), the request stores nothing: both
\* stores are after the request what they were before it.
C13_FailedGenerationNotPersisted ==
    [][\A s \in Slots, outcome \in {"timeout", "network", "rate_limit", "empty"},
          reply \in ReplyContents :
          TurnGenerated(s, outcome, reply) => UNCHANGED <<files, db>>]_vars

\* C14: a turn that is answered with a reply stores the list it found
\* followed by the user turn and the assistant reply, in both stores that
\* are written, leaves endedAt null, keeps the tracker entry with its
\* startedAt and sets only its lastActivity, and answers {reply}, not ended.
C14_TurnGrowsByTwo ==
    [][\A s \in Slots, outcome \in GenerationOutcomes, reply \in ReplyContents :
          TurnGenerated(s, outcome, reply)
          => LET id == inflight[s].id
                 grown(messages) ==
                     messages \o <<Message("user", inflight[s].content),
                                   Message("assistant",
                                           generateAIResponse(outcome, reply).value)>>
             IN  /\ last' = [op |-> "turn", id |-> id, type |-> "reply"]
                 /\ fileWritten =>
                        /\ files'[id].messages = grown(files[id].messages)
                        /\ files'[id].endedAt = NULL
                 /\ prisma =>
                        /\ db'[id].messages = grown(db[id].messages)
                        /\ db'[id].endedAt = NULL
                 /\ id \in DOMAIN activeConversations
                 /\ activeConversations' =
                        [activeConversations EXCEPT ![id].lastActivity = inflight[s].now]
          ]_vars

\* C14 witness: a turn sent some time after the start was answered with a
\* reply; two messages are stored and the session is still tracked.
C14_Witness ==
    \E id \in DOMAIN activeConversations \cap DOMAIN files :
        /\ last = [op |-> "turn", id |-> id, type |-> "reply"]
        /\ Len(files[id].messages) = 2
        /\ files[id].messages[1].role = "user"
        /\ files[id].messages[2].role = "assistant"
        /\ activeConversations[id].lastActivity > activeConversations[id].startedAt

\* C15: in both saveSession implementations, when a primary store is
\* configured and its write fails while the file store works, the session is
\* in the file store after the call, in production as in development.
C15_PrimaryFailureFallsToFile ==
    [][/\ \A sessionData \in StoreSessions, dbFail \in DbFailures :
            ( /\ SaveSession(sessionData, TRUE, dbFail)
              /\ prisma
              /\ primaryFailed(sessionData, dbFail) )
            => /\ readable(files', sessionData.id)
               /\ files'[sessionData.id] = sessionData
       /\ \A data \in StoreSessions, reachable \in BOOLEAN :
            ( /\ DatabaseSaveSession(data, reachable, TRUE, "upsert")
              /\ prisma )
            => /\ readable(files', data.id)
               /\ files'[data.id] = data]_vars

SaveSessionTypes == {"file+database", "file", "database", "none"}

\* C16: dataAccess.saveSession always returns its flags; file is true
\* exactly when the file holds the new record by this call, database is true
\* only when the primary holds it, and when both flags are false neither
\* store was changed by the call.
C16_FlagsTellWhatWasStored ==
    [][\A sessionData \in StoreSessions, fileOk \in BOOLEAN, dbFail \in DbFailures :
          SaveSession(sessionData, fileOk, dbFail)
          => /\ last'.type \in SaveSessionTypes
             /\ last'.type \in {"file+database", "file"}
                   => readable(files', sessionData.id)
                      /\ files'[sessionData.id] = sessionData
             /\ last'.type \in {"database", "none"} => files' = files
             /\ last'.type \in {"file+database", "database"}
                   => sessionData.id \in DOMAIN db' /\ db'[sessionData.id] = sessionData
             /\ last'.type = "none" => files' = files /\ db' = db]_vars

\* C17: getSession returns no session only if the file store holds none for
\* the id and the primary, where it answers, holds none either; it returns
\* the primary's when the primary answers with one.
C17_GetSessionFallsBack ==
    [][\A sessionId \in Ids, reachable \in BOOLEAN, queryOk \in BOOLEAN :
          GetSession(sessionId, reachable, queryOk)
          => /\ last'.type = "null"
                   => /\ ~readable(files, sessionId)
                      /\ (isDatabaseAvailable(reachable) /\ queryOk)
                            => sessionId \notin DOMAIN db
             /\ (isDatabaseAvailable(reachable) /\ queryOk /\ sessionId \in DOMAIN db)
                   => last'.type = "primary"]_vars

\* C18: a start for a participant without a profile answers
\* participant_not_found and creates no record and no tracker entry; a
\* start that succeeds stores, in every store that is written, a record
\* with no messages and null endedAt and durationSeconds under an id that
\* was never used, adds that one entry to the tracker, and returns the id.
C18_StartContract ==
    [][/\ \A p \in ParticipantIds :
            StartMissingParticipant(p)
            => /\ last'.type = "participant_not_found"
               /\ UNCHANGED <<files, db, activeConversations>>
       /\ \A p \in ParticipantIds :
            StartConversation(p)
            => LET id == last'.id
                   fresh == [id |-> id, participantId |-> p, startedAt |-> now,
                             endedAt |-> NULL, durationSeconds |-> NULL,
                             messages |-> <<>>]
               IN  /\ last' = [op |-> "start", id |-> id, type |-> "ok"]
                   /\ id \notin DOMAIN activeConversations \cup DOMAIN closedBy
                   /\ id \notin DOMAIN files \cup DOMAIN db
                   /\ fileWritten \/ prisma
                   /\ files' = IF fileWritten THEN Put(files, id, fresh) ELSE files
                   /\ db' = IF prisma THEN Put(db, id, fresh) ELSE db
                   /\ DOMAIN activeConversations' = DOMAIN activeConversations \cup {id}
                   /\ \A i \in DOMAIN activeConversations :
                          activeConversations'[i] = activeConversations[i]
                   /\ activeConversations'[id].participantId = p]_vars

\* C18 witness: a second conversation has just been started while the first
\* one, which holds messages, is still tracked.
C18_Witness ==
    \E id \in DOMAIN activeConversations, other \in DOMAIN activeConversations :
        /\ id # other
        /\ last = [op |-> "start", id |-> id, type |-> "ok"]
        /\ readable(files, id) /\ files[id].messages = <<>>
        /\ readable(files, other) /\ files[other].messages # <<>>

\* C19: an end call for an id that is not in the tracker answers
\* conversation_not_found and changes neither store nor the tracker.
C19_UntrackedEndNotFound ==
    [][\A id \in Ids :
          ( /\ id \notin DOMAIN activeConversations
            /\ EndNotFound(id) \/ EndDataError(id) \/ \E s \in Slots : EndBegin(s, id) )
          => /\ last' = [op |-> "end", id |-> id, type |-> "conversation_not_found"]
             /\ UNCHANGED <<files, db, activeConversations>>]_vars

\* C19 witness: a second end call for a session an explicit end has closed,
\* whose closed record is stored, was answered conversation_not_found.
C19_Witness ==
    \E id \in DOMAIN closedBy :
        /\ closedBy[id] = "end"
        /\ readable(files, id) /\ files[id].endedAt # NULL
        /\ last = [op |-> "end", id |-> id, type |-> "conversation_not_found"]

\* C20: a turn whose text is empty or white space only can be sent for any id
\* at any time and is answered validation_error, and it changes neither the
\* tracker nor the stores.
C20_BlankTurnRejectedFirst ==
    /\ [](NoMicrotask =>
             \A id \in Ids, content \in BlankContents :
                 ENABLED TurnValidationError(id, content))
    /\ [][\A id \in Ids, content \in BlankContents :
             TurnValidationError(id, content)
             => /\ last' = [op |-> "turn", id |-> id, type |-> "validation_error"]
                /\ UNCHANGED <<files, db, activeConversations, closedBy>>]_vars

\* C20 witness: a blank turn for a tracked session whose time limit has
\* passed was answered validation_error, and the session is still tracked.
C20_Witness ==
    \E id \in DOMAIN activeConversations :
        /\ timeLimitExceeded(now, activeConversations[id].startedAt)
        /\ last = [op |-> "turn", id |-> id, type |-> "validation_error"]

\* C21: a turn for a tracked session is answered timeout exactly when the
\* time since the start has reached CHAT_DURATION_MS, whatever the configured
\* value, a value that is not a whole number of seconds included.
C21_TimeoutIffElapsedReachesLimit ==
    [][\A id \in Ids, content \in UserContents :
          (id \in DOMAIN activeConversations /\ TurnArrival(id, content))
          => ( last' = [op |-> "turn", id |-> id, type |-> "timeout"]
               <=> now - activeConversations[id].startedAt >= CHAT_DURATION_MS )]_vars

\* C22: turns of one session are not serialized.  While a turn waits for
\* its reply, another turn of the same session is admitted and calls the
\* reply generation too; each is answered with a reply, and each save
\* writes the list its own request loaded plus its own pair, whatever the
\* store holds by then, so the later save wins.
C22_ConcurrentTurnsLastWriteWins ==
    /\ [](\A s \in Slots, r \in Slots, id \in Ids :
             ( /\ Generating(s) /\ inflight[s].id = id
               /\ FreeSlot(r)
               /\ Admitted(id) /\ readable(files, id)
               /\ Len(files[id].messages) + 2 <= MaxMsgs )
             => ENABLED TurnBegin(r, id, "text"))
    /\ [][\A s \in Slots, outcome \in GenerationOutcomes, reply \in ReplyContents :
             TurnGenerated(s, outcome, reply)
             => /\ last' = [op |-> "turn", id |-> inflight[s].id, type |-> "reply"]
                /\ fileWritten =>
                       files'[inflight[s].id].messages =
                           inflight[s].pre
                           \o <<Message("user", inflight[s].content),
                                Message("assistant",
                                        generateAIResponse(outcome, reply).value)>>
          ]_vars

\* C22 witness: one of two concurrent turns has been answered and saved; the
\* other still waits for its reply, holding the list as it was before either.
C22_Witness ==
    \E s \in Slots :
        /\ Generating(s)
        /\ readable(files, inflight[s].id)
        /\ last = [op |-> "turn", id |-> inflight[s].id, type |-> "reply"]
        /\ inflight[s].pre = <<>>
        /\ Len(files[inflight[s].id].messages) = 2

\* C23: shutdown drains.  When the process has exited on a shutdown signal,
\* no request is left suspended before its storage write: every in-flight
\* write completed before the connections were released and the process
\* exited.
C23_ShutdownDrains ==
    server = "exited" => \A s \in Slots : inflight[s].op = "idle"

\* C24: in production, with DATABASE_URL set and the database not answering
\* at startup, the process never listens: it exits with a failure first.
C24_ProductionUnreachableAborts ==
    (env = "production" /\ startup.DATABASE_URL /\ ~startup.reachable)
    => /\ server \in {"starting", "exited"}
       /\ server = "exited" => startup.exitCode = 1

\* C25: without DATABASE_URL initializePrisma ends a production process and
\* leaves null in any other mode, and no production process serves requests
\* without a database client.
C25_NoFileOnlyInProduction ==
    /\ [][(initializePrisma /\ ~startup.DATABASE_URL)
          => IF env = "production"
             THEN server' = "exited" /\ startup'.exitCode = 1
             ELSE ~prisma' /\ server' = "starting"]_vars
    /\ [](env = "production" /\ server = "listening" => prisma)

HoldsWordAt(text, i, w) ==
    /\ ~isWordCharacter(charAt(text, i - 1))
    /\ toLowerCase(SubSeq(text, i, i + Len(w) - 1)) = w
    /\ ~isWordCharacter(charAt(text, i + Len(w)))

\* The three words end, the, chat follow one another, one space apart.
ContainsWholePhrase(text) ==
    \E i \in 1..Len(text) :
        /\ i + 11 <= Len(text)
        /\ HoldsWordAt(text, i, "end")
        /\ charAt(text, i + 3) = " "
        /\ HoldsWordAt(text, i + 4, "the")
        /\ charAt(text, i + 7) = " "
        /\ HoldsWordAt(text, i + 8, "chat")

\* C27: the end phrase is detected exactly when the trimmed text holds the
\* words end, the, chat as whole words one space apart, in either case:
\* "please end the chat now" and "END THE CHAT" trigger, "endings of the
\* chat show" and "end the chatroom" do not.
C27_EndPhraseOnWordBoundaries ==
    (call.fn = "shouldEndNow" /\ call.done)
    => /\ call.output <=> ContainsWholePhrase(trimText(call.input))
       /\ call.input \in {"please end the chat now", "END THE CHAT"} => call.output
       /\ call.input \in {"endings of the chat show", "end the chatroom"}
             => ~call.output

\* C27 witness: a text that holds the phrase inside a longer word has been
\* tested and did not trigger.
C27_Witness ==
    /\ call.fn = "shouldEndNow" /\ call.done
    /\ call.input = "end the chatroom"
    /\ ~call.output

\* A summary has been synthesized.
Summarized == call.fn = "fallbackGenerateSummary" /\ call.done

\* The user messages the synthesis reads trigger the theme.
Triggers(theme) == themeSet(contents(call.input.messages), theme)

\* The profile carries a change direction with a sentence.
ProfileSentence ==
    changeDesc(call.input.participant.belief_change.mind_change_direction,
               call.input.participant.belief_change.mind_change_other_text)

\* The bullets triggered, in the fixed order.
TriggeredPoints ==
    LET candidates ==
            <<[on |-> ProfileSentence # "", point |-> ProfilePoint(ProfileSentence)],
              [on |-> Triggers("evidence"), point |-> EvidencePoint],
              [on |-> Triggers("personal"), point |-> PersonalPoint],
              [on |-> Triggers("social"), point |-> SocialPoint],
              [on |-> Triggers("media"), point |-> MediaPoint],
              [on |-> Triggers("change_process"), point |-> ChangeProcessPoint]>>
        chosen == SelectSeq(candidates, LAMBDA c : c.on)
    IN  [i \in 1..Len(chosen) |-> chosen[i].point]

\* C28: the synthesized summary has 2 to 5 bullets; it is the triggered
\* bullets in the fixed order profile, evidence, personal, social, media,
\* change process, cut to the first five when all six are triggered, and
\* followed by the generic fillers up to two bullets when fewer than two
\* are triggered.
C28_TwoToFiveBulletsInOrder ==
    Summarized
    => LET triggered == TriggeredPoints
       IN  /\ Len(call.output) \in 2..5
           /\ Len(triggered) = 6 => call.output = SubSeq(triggered, 1, 5)
           /\ Len(triggered) \in 2..5 => call.output = triggered
           /\ Len(triggered) = 1 => call.output = triggered \o <<FillerPoints[1]>>
           /\ Len(triggered) = 0 => call.output = FillerPoints

\* C28 witness: all six bullets were triggered and the change-process bullet
\* was cut off.
C28_Witness ==
    /\ Summarized
    /\ Len(TriggeredPoints) = 6
    /\ Len(call.output) = 5
    /\ call.output[5] = MediaPoint

\* The bullet is in the list, and where.
Position(points, point) ==
    IF \E i \in 1..Len(points) : points[i] = point
    THEN CHOOSE i \in 1..Len(points) : points[i] = point
    ELSE 0

\* The words occur in the user messages, whatever the messages' length.
UserMessagesHold(w) ==
    \E i \in 1..Len(call.input.messages) :
        /\ call.input.messages[i].role = "user"
        /\ includes(toLowerCase(call.input.messages[i].content), w)

\* C29: when "research" and "my family" occur in the user messages, whatever
\* the length of the messages, the summary holds the evidence bullet and the
\* social bullet, the evidence bullet first.
C29_ResearchAndFamilyBullets ==
    (Summarized /\ UserMessagesHold("research") /\ UserMessagesHold("my family"))
    => /\ Position(call.output, EvidencePoint) > 0
       /\ Position(call.output, SocialPoint) > Position(call.output, EvidencePoint)

\* C30: with change direction natural_to_human the first bullet is the
\* sentence of that code, whatever the user messages trigger.
C30_NaturalToHumanFirst ==
    ( /\ Summarized
      /\ call.input.participant.belief_change.mind_change_direction = "natural_to_human" )
    => call.output[1] =
          "You described your belief change: From thinking climate change is natural, to thinking it is human-caused"

\* C30 witness: a natural_to_human profile with all five themes triggered.
C30_Witness ==
    /\ Summarized
    /\ call.input.participant.belief_change.mind_change_direction = "natural_to_human"
    /\ \A theme \in DOMAIN themes : Triggers(theme)
    /\ Len(call.output) = MaxPoints

\* A reader takes the message for a summary: it lists at least two points
\* or holds a summary keyword.
Qualifies(m) ==
    BulletMarkers(m.content) >= 2 \/ IncludesSummaryKeyword(m.content)

\* The five most recent assistant messages of a list.
RecentAssistant(messages) == SliceLast(SelectRole(messages, "assistant"), 5)

\* C31: the safety net leaves the stored list alone exactly when one of the
\* five most recent assistant messages holds at least two bullet markers or
\* a summary keyword; a qualifying message further back does not count, and
\* a summary is synthesized and appended.
C31_DetectorReadsLastFive ==
    \A s \in Slots :
        (inflight[s].op = "ensure" /\ readable(files, inflight[s].id))
        => LET pre == inflight[s].pre
               recent == RecentAssistant(pre)
               found == \E k \in 1..Len(recent) : Qualifies(recent[k])
           IN  /\ found => files[inflight[s].id].messages = pre
               /\ ~found => files[inflight[s].id].messages = Append(pre, summaryMessage)

\* C32: in the three storage configurations alike, a turn or an end call for
\* an id that conversation start returned, made before the time limit, finds
\* the session saved at start: no such call is answered data_error.
C32_StartedSessionIsFound ==
    [][\A id \in DOMAIN activeConversations :
          /\ last' # [op |-> "turn", id |-> id, type |-> "data_error"]
          /\ last' # [op |-> "end", id |-> id, type |-> "data_error"]]_vars

\* C33: after dataAccess.saveSession reports the database write as done,
\* the Message rows of the session are the saved list: one row per message,
\* in order, turn being the index; so for an empty list, and for a list
\* shorter than the one saved before.
C33_RowsAreTheSavedList ==
    [][\A sessionData \in StoreSessions, fileOk \in BOOLEAN, dbFail \in DbFailures :
          ( /\ SaveSession(sessionData, fileOk, dbFail)
            /\ last'.type \in {"file+database", "database"} )
          => /\ Len(rowsFor(messageRows', sessionData.id)) = Len(sessionData.messages)
             /\ \A i \in 1..Len(sessionData.messages) :
                   rowsFor(messageRows', sessionData.id)[i] =
                       [turn |-> i - 1, role |-> sessionData.messages[i].role,
                        content |-> sessionData.messages[i].content]]_vars

\* A step of the launcher's main fails on this run's inputs.
LauncherStepFails ==
    \/ ~launcher.NODE_ENV
    \/ ~launcher.generateOk
    \/ startup.DATABASE_URL /\ ~startup.reachable /\ env = "production"
    \/ ~launcher.directoriesOk

\* The steps main runs before the spawn, in order.
StepsBeforeSpawn ==
    <<"check", "generate">>
    \o (IF startup.DATABASE_URL THEN <<"migrate">> ELSE <<>>)
    \o <<"directories", "spawn">>

\* C34: the launcher has spawned the server only after the environment check,
\* the client generation, the migrations (when DATABASE_URL is set) and the
\* data directories, in this order and none of them failed; when a step
\* fails, in production the migration included, the launcher exits with 1
\* and the server is never spawned.
C34_SpawnAfterAllSteps ==
    /\ server # "none" => launcher.steps = StepsBeforeSpawn /\ ~LauncherStepFails
    /\ LauncherStepFails
          => /\ server = "none"
             /\ launcher.pc = "exited" => launcher.exitCode = 1
             /\ ENABLED NextLauncher \/ launcher.pc = "exited"

\* C34 witness: the server was spawned after a migration that failed outside
\* production.
C34_Witness ==
    /\ server = "listening"
    /\ startup.DATABASE_URL /\ ~startup.reachable
    /\ launcher.steps = <<"check", "generate", "migrate", "directories", "spawn">>

\* C35: once the server is spawned the launcher exits only after the server
\* has; a SIGTERM or SIGINT it receives is forwarded; and its exit code is
\* the server's.
C35_LauncherOutlivesServer ==
    /\ [](server # "none" /\ launcher.pc = "exited"
            => server = "exited" /\ launcher.exitCode = startup.exitCode)
    /\ [](launcher.pc = "supervising" /\ ~launcher.forwarded /\ server # "exited"
            => ENABLED onSignal)
    /\ [][onSignal => launcher'.forwarded /\ launcher'.pc = "supervising"]_vars

\* Every store that is available to this call holds no record.
AllCleared(reachable) ==
    /\ files' = <<>>
    /\ isDatabaseAvailable(reachable) => db' = <<>> /\ messageRows' = <<>>

\* C36: the clear-all-data endpoint reports success whenever every available
\* store was emptied, file-only mode included, reports failure only when a
\* store could not be cleared, and leaves no file in any outcome.
C36_ClearOutcomeMatchesEffect ==
    [][\A reachable \in BOOLEAN, dbFail \in ClearFailures, unlinkOk \in BOOLEAN :
          ClearAllData(reachable, dbFail, unlinkOk)
          => /\ AllCleared(reachable) => last'.type = "cleared"
             /\ last'.type = "clear_failed" => ~AllCleared(reachable)
             /\ files' = <<>>]_vars

\* C37: whatever isDatabaseAvailable, initializeDatabase and closeDatabase
\* calls have run, a failed disconnect included, isInitialized implies that
\* the client reference is set; a closeDatabase whose disconnect resolves
\* resets both, and the availability check that follows creates a client.
C37_InitializedImpliesClient ==
    /\ [](isInitialized => prisma)
    /\ [][CloseDatabaseDisconnected(TRUE) => ~prisma' /\ ~isInitialized']_vars
    /\ [][(last = [op |-> "closeDatabase", id |-> 0, type |-> "disconnected"]
             /\ IsDatabaseAvailableCall)
            => ~prisma /\ prisma']_vars

\* C37 witness: a disconnect has failed with the flag set, and both stayed.
C37_Witness ==
    /\ last = [op |-> "closeDatabase", id |-> 0, type |-> "logged"]
    /\ prisma /\ isInitialized

=============================================================================
